---- MODULE Spec2Model ----
(***************************************************************************)
(* EDI 810 parser (edi_parser.py) and EDI 997 generator                    *)
(* (edi_997_generator.py) as state machines.                               *)
(*                                                                         *)
(* Text is a sequence of one-character strings, so that the delimiter      *)
(* detection, the splitting, the trimming and the zero padding are         *)
(* computed character by character as Python computes them.  A Decimal is  *)
(* an integer number of 1/10000 currency units.                            *)
(***************************************************************************)
EXTENDS Integers, Sequences, FiniteSets, TLC

VARIABLES
    content,    \* parse_content: the text being parsed (after clean_content)
    segments,   \* parse_content: content.split(self.segment_terminator)
    idx,        \* parse_content: position of the for loop in segments
    cur,        \* parse_content: what lines 177-181 make of segments[idx]
    pc,         \* parse_content: "start", "loop", "returned" or "raised"
    px,         \* the parser instance and the locals of parse_content
    item,       \* an EDILineItem driven through its own methods
    lpc,        \* the EDILineItem's life: "new", "constructed", "typed"
    gen,        \* a generate_997 call: its inputs and its outcome
    sftp,       \* an SFTPHandler: its home_dir and its last _validate_path call
    calls       \* the number of parse_content calls made on the parser instance

vars == <<content, segments, idx, cur, pc, px, item, lpc, gen, sftp, calls>>

(***************************************************************************)
(* Python str operations on sequences of characters                        *)
(***************************************************************************)
Whitespace == {" ", "\n", "\r", "\t"}

Digits == {"0", "1", "2", "3", "4", "5", "6", "7", "8", "9"}

\* s[a:b] with 1-based inclusive bounds; empty when a > b
Slice(s, a, b) == IF a > b THEN <<>> ELSE SubSeq(s, a, b)

\* str.startswith
StartsWith(s, p) == Len(s) >= Len(p) /\ SubSeq(s, 1, Len(p)) = p

\* p occurs in s at position i
MatchAt(s, p, i) == i + Len(p) - 1 <= Len(s) /\ SubSeq(s, i, i + Len(p) - 1) = p

\* c in s, for a character c
Contains(s, c) == \E i \in 1..Len(s) : s[i] = c

\* str.strip(): from the first to the last character that is no whitespace
Strip(s) ==
    LET keep == {i \in 1..Len(s) : s[i] \notin Whitespace}
    IN  IF keep = {} THEN <<>>
        ELSE SubSeq(s, CHOOSE i \in keep : \A j \in keep : i <= j,
                       CHOOSE i \in keep : \A j \in keep : i >= j)

\* the positions where sep occurs in s
Hits(s, sep) == {i \in 1..(Len(s) - Len(sep) + 1) : MatchAt(s, sep, i)}

\* the occurrences str.split and str.replace cut at: leftmost first, none
\* overlapping the one before
RECURSIVE Cuts(_, _, _)
Cuts(hits, width, from) ==
    LET rest == {i \in hits : i >= from}
    IN  IF rest = {} THEN <<>>
        ELSE LET m == CHOOSE i \in rest : \A j \in rest : i <= j
             IN  <<m>> \o Cuts(hits, width, m + width)

\* str.split(sep), sep not empty: the pieces between the cuts, empty pieces kept
Split(s, sep) ==
    LET cuts == Cuts(Hits(s, sep), Len(sep), 1)
        n    == Len(cuts)
    IN  [k \in 1..(n + 1) |->
            Slice(s, IF k = 1 THEN 1 ELSE cuts[k - 1] + Len(sep),
                     IF k = n + 1 THEN Len(s) ELSE cuts[k] - 1)]

\* sep.join(list)
RECURSIVE Join(_, _)
Join(list, sep) ==
    IF list = <<>> THEN <<>>
    ELSE IF Len(list) = 1 THEN list[1]
         ELSE list[1] \o sep \o Join(Tail(list), sep)

\* str.replace(old, new), old not empty: the same occurrences split cuts at
Replace(s, old, new) == Join(Split(s, old), new)

RECURSIVE Zeros(_)
Zeros(n) == IF n <= 0 THEN <<>> ELSE <<"0">> \o Zeros(n - 1)

\* str.zfill(width): zeros go after a leading sign
zfill(s, width) ==
    IF s # <<>> /\ Head(s) \in {"+", "-"}
    THEN <<Head(s)>> \o Zeros(width - Len(s)) \o Tail(s)
    ELSE Zeros(width - Len(s)) \o s

(***************************************************************************)
(* decimal.Decimal, in units of 1/10000                                    *)
(***************************************************************************)
Scale == 10000

Abs(x) == IF x < 0 THEN -x ELSE x

DigitVal(c) ==
    CASE c = "0" -> 0 [] c = "1" -> 1 [] c = "2" -> 2 [] c = "3" -> 3 [] c = "4" -> 4
      [] c = "5" -> 5 [] c = "6" -> 6 [] c = "7" -> 7 [] c = "8" -> 8 [] c = "9" -> 9

RECURSIVE NatVal(_)
NatVal(s) == IF s = <<>> THEN 0 ELSE NatVal(SubSeq(s, 1, Len(s) - 1)) * 10 + DigitVal(s[Len(s)])

AllDigits(s) == \A i \in 1..Len(s) : s[i] \in Digits

RECURSIVE Pow10(_)
Pow10(n) == IF n = 0 THEN 1 ELSE 10 * Pow10(n - 1)

\* Decimal(str) for the literals [-]digits[.digits] with at most four
\* fractional digits; every other text of the model (empty, letters) is not a
\* number and Decimal raises InvalidOperation: ok = FALSE.
Decimal(s) ==
    LET neg  == s # <<>> /\ Head(s) = "-"
        body == IF neg THEN Tail(s) ELSE s
        dots == {i \in 1..Len(body) : body[i] = "."}
        dot  == IF dots = {} THEN Len(body) + 1 ELSE CHOOSE i \in dots : TRUE
        ip   == Slice(body, 1, dot - 1)
        fp   == Slice(body, dot + 1, Len(body))
        good == /\ Cardinality(dots) <= 1
                /\ AllDigits(ip) /\ AllDigits(fp)
                /\ Len(ip) + Len(fp) >= 1
                /\ Len(fp) <= 4
        mag  == NatVal(ip) * Scale + NatVal(fp) * Pow10(4 - Len(fp))
    IN  IF good THEN [ok |-> TRUE, v |-> IF neg THEN -mag ELSE mag]
        ELSE [ok |-> FALSE, v |-> 0]

\* Decimal * Decimal, exact because the factors of the model (quantities and
\* unit prices) have at most two fractional digits
Mul(a, b) == (a \div 100) * (b \div 100)

\* x / Decimal('100'), exact for values with at most two fractional digits
Div100(x) == IF x < 0 THEN -((-x) \div 100) ELSE x \div 100

\* x.quantize(Decimal('0.01'), rounding=ROUND_HALF_UP): halves away from zero
Quantize(x) ==
    IF x < 0 THEN -(((-x + 50) \div 100) * 100) ELSE ((x + 50) \div 100) * 100

RECURSIVE SumSeq(_)
SumSeq(s) == IF s = <<>> THEN 0 ELSE Head(s) + SumSeq(Tail(s))

(***************************************************************************)
(* Literals of the source.  Optional values (None, or a local that is not  *)
(* bound yet) are sequences of length 0 or 1.                              *)
(***************************************************************************)
None == <<>>

Some(x) == <<x>>

\* the segment ids of the if/elif chain of parse_content
Tag ==
    [ISA |-> <<"I", "S", "A">>,
     GS |-> <<"G", "S">>,
     ST |-> <<"S", "T">>,
     GE |-> <<"G", "E">>,
     BIG |-> <<"B", "I", "G">>,
     N1 |-> <<"N", "1">>,
     IT1 |-> <<"I", "T", "1">>,
     PID |-> <<"P", "I", "D">>,
     SAC |-> <<"S", "A", "C">>,
     TXI |-> <<"T", "X", "I">>,
     REF |-> <<"R", "E", "F">>,
     TDS |-> <<"T", "D", "S">>]

CR == <<"C", "R">>

SALES_TAX == <<"S", "A", "L", "E", "S", " ", "T", "A", "X">>

PROMOTIONAL_ALLOWANCE ==
    <<"P", "R", "O", "M", "O", "T", "I", "O", "N", "A", "L", " ",
      "A", "L", "L", "O", "W", "A", "N", "C", "E">>

TAX_DESCRIPTION == <<"T", "a", "x">>

H850 == <<"H", "8", "5", "0">>

\* elements[k] of Python, k counted from 0
El(elements, k) == elements[k + 1]

(***************************************************************************)
(* EDILineItem                                                             *)
(***************************************************************************)
\* the dataclass constructor and __post_init__
EDILineItem(line_number, quantity, unit_price, uom, product_code, description, gl_account) ==
    [line_number |-> line_number, quantity |-> quantity, unit_price |-> unit_price,
     uom |-> uom, product_code |-> product_code, description |-> description,
     total_amount |-> Mul(quantity, unit_price),
     allowances |-> <<>>, taxes |-> <<>>, gl_account |-> gl_account,
     transaction_type |-> <<>>]

set_transaction_type(it, transaction_type) ==
    [it EXCEPT !.transaction_type = transaction_type,
               !.total_amount = IF transaction_type = CR THEN -Abs(@) ELSE @]

\* the amount a credit item adds: -abs(amount)
SignedFor(it, amount) == IF it.transaction_type = CR THEN -Abs(amount) ELSE amount

add_allowance(it, allowance) ==
    [it EXCEPT !.allowances = Append(@, allowance),
               !.total_amount = @ + SignedFor(it, allowance.amount)]

\* add_tax without the credit sign
add_tax_unsigned(it, tax) ==
    [it EXCEPT !.taxes = Append(@, tax), !.total_amount = @ + tax.amount]

add_tax(it, tax) ==
    [it EXCEPT !.taxes = Append(@, tax),
               !.total_amount = @ + SignedFor(it, tax.amount)]

\* a {'type', 'amount', 'description'} dict of the allowances and taxes lists
Adjustment(type, amount, description) ==
    [kind |-> "dict", type |-> type, amount |-> amount, description |-> description]

\* a bare Decimal put in a list of dicts
BareDecimal(amount) == [kind |-> "Decimal", amount |-> amount]

\* sum(a['amount'] for a in list); a['amount'] raises TypeError on a bare Decimal
Subscriptable(list) == \A i \in 1..Len(list) : list[i].kind = "dict"

Amounts(list) == [i \in 1..Len(list) |-> list[i].amount]

SumAmounts(list) == SumSeq(Amounts(list))

(***************************************************************************)
(* EDIInvoice                                                              *)
(***************************************************************************)
EDIInvoice(invoice_number, invoice_date, po_number, sender_id, receiver_id, interchange_control_number, transaction_type) ==
    [invoice_number |-> invoice_number, invoice_date |-> invoice_date,
     po_number |-> po_number, total_amount |-> 0,
     vendor_name |-> <<>>, buyer_name |-> <<>>, ship_to_name |-> <<>>,
     bill_to_name |-> <<>>, ship_from_name |-> <<>>,
     sender_id |-> sender_id, receiver_id |-> receiver_id,
     interchange_control_number |-> interchange_control_number,
     line_items |-> <<>>, allowances |-> <<>>, taxes |-> <<>>,
     gl_account |-> <<>>, transaction_type |-> transaction_type, total_tax |-> 0]

LineBases(inv) ==
    [i \in 1..Len(inv.line_items) |->
        Mul(inv.line_items[i].quantity, inv.line_items[i].unit_price)]

LineAllowances(inv) ==
    [i \in 1..Len(inv.line_items) |-> SumAmounts(inv.line_items[i].allowances)]

\* calculate_total with -total in place of -abs(total)
calculate_total_negated(inv) ==
    LET lines == SumSeq(LineBases(inv)) + SumSeq(LineAllowances(inv))
        tax   == IF inv.total_tax > 0 THEN inv.total_tax ELSE SumAmounts(inv.taxes)
        total == lines + SumAmounts(inv.allowances) + tax
        signed == IF inv.transaction_type = CR THEN -total ELSE total
    IN  IF Subscriptable(inv.allowances)
        THEN [ok |-> TRUE, v |-> Quantize(signed)]
        ELSE [ok |-> FALSE, v |-> 0]

\* calculate_total: ok = FALSE when it raises (TypeError on a bare Decimal)
calculate_total(inv) ==
    LET lines == SumSeq(LineBases(inv)) + SumSeq(LineAllowances(inv))
        tax   == IF inv.total_tax > 0 THEN inv.total_tax ELSE SumAmounts(inv.taxes)
        total == lines + SumAmounts(inv.allowances) + tax
        signed == IF inv.transaction_type = CR THEN -Abs(total) ELSE total
    IN  IF Subscriptable(inv.allowances)
        THEN [ok |-> TRUE, v |-> Quantize(signed)]
        ELSE [ok |-> FALSE, v |-> 0]

(***************************************************************************)
(* EDI810Parser: the handlers of parse_content's loop.  Each takes the     *)
(* parser state p, the elements of the segment and the segment text, and   *)
(* gives the state after the segment.  p.last is what the segment sent to  *)
(* the page: "none", "warning" (st.warning of the except clause) or        *)
(* "expander" (the mismatch details).                                      *)
(***************************************************************************)
Warned(p) == [p EXCEPT !.last = "warning"]

Quiet(p) == [p EXCEPT !.last = "none"]

IsLeap(y) == (y % 4 = 0 /\ y % 100 # 0) \/ y % 400 = 0

DaysIn(y, m) ==
    IF m = 2 THEN (IF IsLeap(y) THEN 29 ELSE 28)
    ELSE IF m \in {4, 6, 9, 11} THEN 30 ELSE 31

\* parse_date on the dates of the model: eight digits YYYYMMDD that name a
\* day of the calendar parse with '%Y%m%d'; a text with a character that is
\* no digit fails both formats (ValueError)
parse_date(date_str) ==
    LET year  == NatVal(Slice(date_str, 1, 4))
        month == NatVal(Slice(date_str, 5, 6))
        day   == NatVal(Slice(date_str, 7, 8))
    IN  IF /\ Len(date_str) = 8 /\ AllDigits(date_str)
           /\ year >= 1 /\ month \in 1..12 /\ day \in 1..DaysIn(year, month)
        THEN [ok |-> TRUE, v |-> date_str]
        ELSE [ok |-> FALSE, v |-> <<>>]

\* the mutant of HandleISA that trims the padding of the ids
HandleISATrimmed(p, elements, segment) ==
    LET n  == Len(elements)
        p1 == [p EXCEPT !.original_segments["ISA"] = Some(Strip(segment))]
        p2 == IF n > 6 THEN [p1 EXCEPT !.sender_id = Some(Strip(El(elements, 6)))] ELSE p1
        p3 == IF n > 8 THEN [p2 EXCEPT !.receiver_id = Some(Strip(El(elements, 8)))] ELSE p2
        p4 == IF n > 13
              THEN [p3 EXCEPT !.interchange_control_number = Some(El(elements, 13))]
              ELSE p3
    IN  IF n > 13 THEN Quiet(p4) ELSE Warned(p4)

HandleISA(p, elements, segment) ==
    LET n  == Len(elements)
        p1 == [p EXCEPT !.original_segments["ISA"] = Some(Strip(segment))]
        p2 == IF n > 6 THEN [p1 EXCEPT !.sender_id = Some(El(elements, 6))] ELSE p1
        p3 == IF n > 8 THEN [p2 EXCEPT !.receiver_id = Some(El(elements, 8))] ELSE p2
        p4 == IF n > 13
              THEN [p3 EXCEPT !.interchange_control_number = Some(El(elements, 13))]
              ELSE p3
    IN  IF n > 13 THEN Quiet(p4) ELSE Warned(p4)

HandleHeader(p, tag, segment) ==
    Quiet([p EXCEPT !.original_segments[tag] = Some(Strip(segment))])

\* elements[5] if len(elements) > 5 else ""
BigPoNumber(elements) == IF Len(elements) > 5 THEN El(elements, 5) ELSE <<>>

\* elements[-1] if len(elements) > 6 else ""
BigTransactionType(elements) ==
    IF Len(elements) > 6 THEN elements[Len(elements)] ELSE <<>>

\* the BIG branch keeps current_line_item as it is
HandleBIG(p, elements) ==
    LET n    == Len(elements)
        date == IF n > 1 THEN parse_date(El(elements, 1)) ELSE [ok |-> FALSE, v |-> <<>>]
        bound == /\ p.sender_id # None /\ p.receiver_id # None
                 /\ p.interchange_control_number # None
        inv  == EDIInvoice(El(elements, 2), date.v, BigPoNumber(elements),
                           p.sender_id[1], p.receiver_id[1],
                           p.interchange_control_number[1],
                           BigTransactionType(elements))
    IN  IF n > 2 /\ date.ok /\ bound
        THEN Quiet([p EXCEPT !.invoices = Append(@, inv),
                             !.current_invoice = Len(p.invoices) + 1])
        ELSE Warned(p)

\* the mutant of PartyField that files the buyer's name as the vendor's
PartyFieldBuyerAsVendor(party_id) ==
    CASE party_id \in {<<"S", "E">>, <<"B", "Y">>} -> "vendor_name"
      [] party_id = <<"S", "T">> -> "ship_to_name"
      [] party_id = <<"B", "T">> -> "bill_to_name"
      [] party_id = <<"S", "F">> -> "ship_from_name"
      [] OTHER -> "none"

PartyField(party_id) ==
    CASE party_id = <<"S", "E">> -> "vendor_name"
      [] party_id = <<"B", "Y">> -> "buyer_name"
      [] party_id = <<"S", "T">> -> "ship_to_name"
      [] party_id = <<"B", "T">> -> "bill_to_name"
      [] party_id = <<"S", "F">> -> "ship_from_name"
      [] OTHER -> "none"

HandleN1(p, elements) ==
    LET f == PartyField(El(elements, 1))
    IN  IF p.current_invoice # 0 /\ Len(elements) > 2 /\ f # "none"
        THEN Quiet([p EXCEPT !.invoices[p.current_invoice][f] = El(elements, 2)])
        ELSE Quiet(p)

HandleIT1(p, elements) ==
    LET n   == Len(elements)
        ci  == p.current_invoice
        qty == IF n > 2 THEN Decimal(El(elements, 2)) ELSE [ok |-> FALSE, v |-> 0]
        up  == IF n > 4 THEN Decimal(El(elements, 4)) ELSE [ok |-> FALSE, v |-> 0]
        new == EDILineItem(El(elements, 1), qty.v, up.v, El(elements, 3),
                           El(elements, 7),
                           IF n > 9 THEN El(elements, 9) ELSE <<>>,
                           elements[n])
        it  == set_transaction_type(new, p.invoices[ci].transaction_type)
    IN  IF ci = 0 THEN Quiet(p)
        ELSE IF qty.ok /\ up.ok /\ n > 7
             THEN Quiet([p EXCEPT !.invoices[ci].line_items = Append(@, it),
                                  !.current_line_item =
                                      <<ci, Len(p.invoices[ci].line_items) + 1>>])
             ELSE Warned(p)

HandlePID(p, elements) ==
    LET li == p.current_line_item
    IN  IF li # None /\ Len(elements) > 5
        THEN Quiet([p EXCEPT !.invoices[li[1]].line_items[li[2]].description =
                                 El(elements, 5)])
        ELSE Quiet(p)

\* parse_sac_segment: res is "dict" (with the dict), "none", or "raise" when
\* Decimal raises InvalidOperation, which its except clause does not catch
parse_sac_segment(segment, element_separator) ==
    LET elements == Split(segment, element_separator)
        n        == Len(elements)
        ind      == El(elements, 1)
        raw      == Decimal(El(elements, 5))
        cents    == Div100(raw.v)
        amount   == IF ind = <<"A">> THEN -cents ELSE cents
        description ==
            IF ind = <<"C">> /\ El(elements, 2) = H850 THEN SALES_TAX
            ELSE IF n > 15 /\ El(elements, 15) # <<>> THEN El(elements, 15)
                 ELSE PROMOTIONAL_ALLOWANCE
    IN  IF n > 5 /\ ind \in {<<"A">>, <<"C">>}
        THEN IF raw.ok
             THEN [res |-> "dict",
                   dict |-> Adjustment(El(elements, 2), Quantize(amount), description)]
             ELSE [res |-> "raise"]
        ELSE [res |-> "none"]

HandleSAC(p, segment) ==
    LET r  == parse_sac_segment(segment, p.element_separator)
        li == p.current_line_item
        ci == p.current_invoice
        isTax == r.dict.description = SALES_TAX
    IN  CASE r.res = "raise" -> Warned(p)
          [] r.res = "none" -> Quiet(p)
          [] OTHER ->
            IF li # None
            THEN Quiet([p EXCEPT !.invoices[li[1]].line_items[li[2]] =
                            IF isTax THEN add_tax(@, r.dict) ELSE add_allowance(@, r.dict)])
            ELSE IF ci # 0
                 THEN IF isTax
                      THEN Quiet([p EXCEPT !.invoices[ci].taxes = Append(@, r.dict)])
                      ELSE Quiet([p EXCEPT !.invoices[ci].allowances = Append(@, r.dict)])
                 ELSE Quiet(p)

\* the mutant of HandleTXI that takes every amount for cents
HandleTXICents(p, elements) ==
    LET ci  == p.current_invoice
        raw == Decimal(El(elements, 2))
        tax_type   == El(elements, 1)
        tax_amount == Div100(raw.v)
        tax == Adjustment(tax_type, tax_amount, TAX_DESCRIPTION)
    IN  IF ci # 0 /\ Len(elements) > 2
        THEN IF ~raw.ok THEN Warned(p)
             ELSE IF tax_type \in {<<"T", "X">>, <<"L", "S">>}
                  THEN Quiet([p EXCEPT !.invoices[ci].total_tax = tax_amount])
                  ELSE Quiet([p EXCEPT !.invoices[ci].taxes = Append(@, tax)])
        ELSE Quiet(p)

HandleTXI(p, elements) ==
    LET ci  == p.current_invoice
        raw == Decimal(El(elements, 2))
        tax_type   == El(elements, 1)
        tax_amount == IF Contains(El(elements, 2), ".") THEN raw.v ELSE Div100(raw.v)
        tax == Adjustment(tax_type, tax_amount, TAX_DESCRIPTION)
    IN  IF ci # 0 /\ Len(elements) > 2
        THEN IF ~raw.ok THEN Warned(p)
             ELSE IF tax_type \in {<<"T", "X">>, <<"L", "S">>}
                  THEN Quiet([p EXCEPT !.invoices[ci].total_tax = tax_amount])
                  ELSE Quiet([p EXCEPT !.invoices[ci].taxes = Append(@, tax)])
        ELSE Quiet(p)

\* the guard of the REF branch
IsGLRef(elements) ==
    /\ El(elements, 0) = Tag.REF /\ Len(elements) > 1
    /\ El(elements, 1) \in {<<"P", "G">>, CR}

HandleREF(p, elements) ==
    LET li == p.current_line_item
        ci == p.current_invoice
        gl == IF Len(elements) > 2 THEN El(elements, 2) ELSE <<>>
    IN  IF li # None
        THEN Quiet([p EXCEPT !.invoices[li[1]].line_items[li[2]].gl_account = gl])
        ELSE IF ci # 0 THEN Quiet([p EXCEPT !.invoices[ci].gl_account = gl])
             ELSE Quiet(p)

\* Decimal('0.02') of the totals check
MismatchTolerance == 200

\* the TDS branch.  The discount is appended and the total stored before
\* calculate_total runs, so they stay when it raises.
HandleTDS(p, elements) ==
    LET n     == Len(elements)
        ci    == p.current_invoice
        raw1  == IF n > 1 THEN Decimal(El(elements, 1)) ELSE [ok |-> FALSE, v |-> 0]
        raw4  == IF n > 3
                 THEN (IF n > 4 THEN Decimal(El(elements, 4)) ELSE [ok |-> FALSE, v |-> 0])
                 ELSE [ok |-> TRUE, v |-> 0]
        dotted == Contains(El(elements, 1), ".")
        total0 == IF dotted THEN raw1.v ELSE Div100(raw1.v)
        tds_discount == IF dotted THEN raw4.v ELSE Div100(raw4.v)
        inv0  == p.invoices[ci]
        total_amount == IF inv0.transaction_type = CR THEN -Abs(total0) ELSE total0
        inv1  == [inv0 EXCEPT
                    !.allowances = IF tds_discount > 0
                                   THEN Append(@, BareDecimal(tds_discount)) ELSE @,
                    !.total_amount = Quantize(total_amount)]
        p1    == [p EXCEPT !.invoices[ci] = inv1]
        calculated_total == calculate_total(inv1)
    IN  IF ~(raw1.ok /\ raw4.ok) THEN Warned(p)
        ELSE IF ci = 0 THEN Quiet(p)
        ELSE IF ~calculated_total.ok THEN Warned(p1)
        ELSE IF Abs(calculated_total.v - total_amount) > MismatchTolerance
             THEN [p1 EXCEPT !.last = "expander"]
             ELSE Quiet(p1)

(***************************************************************************)
(* The rows of the tables: invoice_to_dict and get_line_items_df           *)
(***************************************************************************)
\* float(Decimal): the nearest double.  The double is the Decimal itself only
\* when the amount is a multiple of 1/16 (625/10000); read back as a decimal
\* value (15 significant digits) it gives the amount again.
float(d) == [value |-> d, exact |-> d % 625 = 0]

\* -abs(x) for a credit invoice
CreditSign(inv, x) == IF inv.transaction_type = CR THEN -Abs(x) ELSE x

\* invoice_to_dict, the row of one invoice: ok = FALSE when it raises (TypeError
\* on a bare Decimal among the invoice's allowances)
invoice_to_dict(invoice) ==
    LET line_items_base    == CreditSign(invoice, SumSeq(LineBases(invoice)))
        line_allowances    == CreditSign(invoice, SumSeq(LineAllowances(invoice)))
        invoice_allowances == CreditSign(invoice, SumAmounts(invoice.allowances))
        total_taxes ==
            CreditSign(invoice, IF invoice.total_tax > 0 THEN invoice.total_tax
                                ELSE SumAmounts(invoice.taxes))
        total_allowances == line_allowances + invoice_allowances
        subtotal     == line_items_base + total_allowances
        total_amount == subtotal + total_taxes
    IN  IF Subscriptable(invoice.allowances)
        THEN [ok |-> TRUE,
              row |-> ("Invoice Number" :> invoice.invoice_number
                       @@ "Invoice Date" :> invoice.invoice_date
                       @@ "PO Number" :> invoice.po_number
                       @@ "Total Amount" :> float(total_amount)
                       @@ "Line Items Subtotal" :> float(line_items_base)
                       @@ "Total Allowances" :> float(total_allowances)
                       @@ "Total Discounts" :> float(invoice_allowances)
                       @@ "Total Taxes" :> float(total_taxes)
                       @@ "Control Number" :> invoice.interchange_control_number
                       @@ "Vendor Name" :> invoice.vendor_name
                       @@ "Buyer Name" :> invoice.buyer_name
                       @@ "Ship To Name" :> invoice.ship_to_name
                       @@ "Bill To Name" :> invoice.bill_to_name
                       @@ "Ship From Name" :> invoice.ship_from_name
                       @@ "Currency" :> <<"U", "S", "D">>
                       @@ "Sender ID" :> invoice.sender_id
                       @@ "Receiver ID" :> invoice.receiver_id
                       @@ "Transaction Type" :> invoice.transaction_type)]
        ELSE [ok |-> FALSE]

\* get_line_items_df: the row of one line item, its amount columns
LineItemRow(invoice, it) ==
    LET base_amount == CreditSign(invoice, Mul(it.quantity, it.unit_price))
        allowances  == CreditSign(invoice, SumAmounts(it.allowances))
        tax         == CreditSign(invoice, SumAmounts(it.taxes))
        net_amount  == base_amount + allowances + tax
    IN  "Invoice Number" :> invoice.invoice_number
        @@ "Line Number" :> it.line_number
        @@ "Line Amount" :> float(base_amount)
        @@ "Allowances" :> float(allowances)
        @@ "Sales Tax" :> float(tax)
        @@ "Net Amount" :> float(net_amount)

\* get_line_items_df: the rows, invoice by invoice
RECURSIVE get_line_items_df(_)
get_line_items_df(invoices) ==
    IF invoices = <<>> THEN <<>>
    ELSE LET invoice == Head(invoices)
         IN  [i \in 1..Len(invoice.line_items) |-> LineItemRow(invoice, invoice.line_items[i])]
                 \o get_line_items_df(Tail(invoices))

(***************************************************************************)
(* The tokenizer                                                           *)
(***************************************************************************)
\* clean_content: it runs before detect_separators, so the terminator it
\* knows is the one the instance holds from __init__ or from an earlier call
clean_content(p, text) ==
    LET c1 == Replace(Strip(text), <<"\r", "\n">>, <<"\n">>)
        c2 == Replace(c1, <<"\r">>, <<"\n">>)
    IN  Replace(c2, p.segment_terminator \o <<"\n">>, p.segment_terminator)

\* detect_separators: content[3:4] and content[-1]
detect_separators(p, text) ==
    IF StartsWith(text, Tag.ISA)
    THEN [p EXCEPT !.element_separator = Slice(text, 4, IF Len(text) >= 4 THEN 4 ELSE 3),
                   !.segment_terminator = <<text[Len(text)]>>]
    ELSE p

\* EDI810Parser.__init__
NewParser ==
    [element_separator |-> <<"*">>, segment_terminator |-> <<"~">>,
     original_segments |-> [t \in {"ISA", "ST", "GS", "GE"} |-> None],
     invoices |-> <<>>, current_invoice |-> 0, current_line_item |-> None,
     sender_id |-> None, receiver_id |-> None, interchange_control_number |-> None,
     last |-> "none"]

\* the locals of a parse_content call, before its loop
EnterCall(p) ==
    [p EXCEPT !.invoices = <<>>, !.current_invoice = 0, !.current_line_item = None,
              !.sender_id = None, !.receiver_id = None,
              !.interchange_control_number = None, !.last = "none"]

(***************************************************************************)
(* The documents of the model                                              *)
(***************************************************************************)
\* the segments the documents and the generate_997 inputs are made of, each
\* as its list of elements
Seg ==
    [
      \* ISA*00* *00* *ZZ*SND *01*RCV *231213*1129*U*00401*12*0*P*>
      ISA |->
        <<<<"I", "S", "A">>, <<"0", "0">>, <<" ">>, <<"0", "0">>, <<" ">>, <<"Z", "Z">>,
          <<"S", "N", "D", " ">>, <<"0", "1">>, <<"R", "C", "V", " ">>,
          <<"2", "3", "1", "2", "1", "3">>, <<"1", "1", "2", "9">>, <<"U">>,
          <<"0", "0", "4", "0", "1">>, <<"1", "2">>, <<"0">>, <<"P">>, <<">">>>>,
      \* ISA*00*X
      ISAShort |->
        <<<<"I", "S", "A">>, <<"0", "0">>, <<"X">>>>,
      \* GS*IN*SND*RCV*20231213*1129*7*X*004010
      GS |->
        <<<<"G", "S">>, <<"I", "N">>, <<"S", "N", "D">>, <<"R", "C", "V">>,
          <<"2", "0", "2", "3", "1", "2", "1", "3">>, <<"1", "1", "2", "9">>, <<"7">>,
          <<"X">>, <<"0", "0", "4", "0", "1", "0">>>>,
      \* ST*810*0001
      ST |->
        <<<<"S", "T">>, <<"8", "1", "0">>, <<"0", "0", "0", "1">>>>,
      \* GE*1*7
      GE |->
        <<<<"G", "E">>, <<"1">>, <<"7">>>>,
      \* BIG*20231213*A1*20231213*PO1
      BIG1 |->
        <<<<"B", "I", "G">>, <<"2", "0", "2", "3", "1", "2", "1", "3">>, <<"A", "1">>,
          <<"2", "0", "2", "3", "1", "2", "1", "3">>, <<"P", "O", "1">>>>,
      \* BIG*20231213*A2*20231213*PO2
      BIG2 |->
        <<<<"B", "I", "G">>, <<"2", "0", "2", "3", "1", "2", "1", "3">>, <<"A", "2">>,
          <<"2", "0", "2", "3", "1", "2", "1", "3">>, <<"P", "O", "2">>>>,
      \* BIG*20231213*A3*20231213*PO3*R1*CR
      BIGCredit |->
        <<<<"B", "I", "G">>, <<"2", "0", "2", "3", "1", "2", "1", "3">>, <<"A", "3">>,
          <<"2", "0", "2", "3", "1", "2", "1", "3">>, <<"P", "O", "3">>, <<"R", "1">>,
          <<"C", "R">>>>,
      \* BIG*X*A4
      BIGBad |->
        <<<<"B", "I", "G">>, <<"X">>, <<"A", "4">>>>,
      \* IT1*1*10*EA*100.00**BP*PROD001*UA*DESC001
      IT1 |->
        <<<<"I", "T", "1">>, <<"1">>, <<"1", "0">>, <<"E", "A">>,
          <<"1", "0", "0", ".", "0", "0">>, <<>>, <<"B", "P">>,
          <<"P", "R", "O", "D", "0", "0", "1">>, <<"U", "A">>,
          <<"D", "E", "S", "C", "0", "0", "1">>>>,
      \* IT1*2*0.5*EA*0.01**BP*P2
      IT1Half |->
        <<<<"I", "T", "1">>, <<"2">>, <<"0", ".", "5">>, <<"E", "A">>,
          <<"0", ".", "0", "1">>, <<>>, <<"B", "P">>, <<"P", "2">>>>,
      \* PID*F****D
      PID |->
        <<<<"P", "I", "D">>, <<"F">>, <<>>, <<>>, <<>>, <<"D">>>>,
      \* SAC*A*C310*VP*01*500
      SAC |->
        <<<<"S", "A", "C">>, <<"A">>, <<"C", "3", "1", "0">>, <<"V", "P">>, <<"0", "1">>,
          <<"5", "0", "0">>>>,
      \* SAC*C*H850***1000
      SACTax |->
        <<<<"S", "A", "C">>, <<"C">>, <<"H", "8", "5", "0">>, <<>>, <<>>,
          <<"1", "0", "0", "0">>>>,
      \* TXI*ST*1000
      TXI |->
        <<<<"T", "X", "I">>, <<"S", "T">>, <<"1", "0", "0", "0">>>>,
      \* TXI*TX*2000
      TXITotal |->
        <<<<"T", "X", "I">>, <<"T", "X">>, <<"2", "0", "0", "0">>>>,
      \* REF*PG*G1
      REF |->
        <<<<"R", "E", "F">>, <<"P", "G">>, <<"G", "1">>>>,
      \* TDS*100000
      TDS |->
        <<<<"T", "D", "S">>, <<"1", "0", "0", "0", "0", "0">>>>,
      \* TDS*2
      TDS2 |->
        <<<<"T", "D", "S">>, <<"2">>>>,
      \* TDS*3
      TDS3 |->
        <<<<"T", "D", "S">>, <<"3">>>>,
      \* TDS*100000*1*2
      TDSFour |->
        <<<<"T", "D", "S">>, <<"1", "0", "0", "0", "0", "0">>, <<"1">>, <<"2">>>>,
      \* TDS*100000***50
      TDSDiscount |->
        <<<<"T", "D", "S">>, <<"1", "0", "0", "0", "0", "0">>, <<>>, <<>>, <<"5", "0">>>>,
      \* an ISA whose sender id holds the character ~
      ISATilde |->
        <<<<"I", "S", "A">>, <<"0", "0">>, <<" ">>, <<"0", "0">>, <<" ">>, <<"Z", "Z">>,
          <<"S", "~", "D", " ">>, <<"0", "1">>, <<"R", "C", "V", " ">>,
          <<"2", "3", "1", "2", "1", "3">>, <<"1", "1", "2", "9">>, <<"U">>,
          <<"0", "0", "4", "0", "1">>, <<"1", "2">>, <<"0">>, <<"P">>, <<">">>>>,
      \* an ISA of fifteen elements, the tag counted
      ISAFifteen |->
        <<<<"I", "S", "A">>, <<"0", "0">>, <<" ">>, <<"0", "0">>, <<" ">>, <<"Z", "Z">>,
          <<"S", "N", "D", " ">>, <<"0", "1">>, <<"R", "C", "V", " ">>,
          <<"2", "3", "1", "2", "1", "3">>, <<"1", "1", "2", "9">>, <<"U">>,
          <<"0", "0", "4", "0", "1">>, <<"1", "2">>, <<"0">>>>,
      \* ST*810
      STShort |->
        <<<<"S", "T">>, <<"8", "1", "0">>>>,
      \* SE*13*0001
      SE |->
        <<<<"S", "E">>, <<"1", "3">>, <<"0", "0", "0", "1">>>>,
      \* GS*IN*SND*RCV*20231213*1129*7
      GSShort |->
        <<<<"G", "S">>, <<"I", "N">>, <<"S", "N", "D">>, <<"R", "C", "V">>,
          <<"2", "0", "2", "3", "1", "2", "1", "3">>, <<"1", "1", "2", "9">>, <<"7">>>>,
      \* an ISA of seventeen elements whose control number has ten digits
      ISALong |->
        <<<<"I", "S", "A">>, <<"0", "0">>, <<" ">>, <<"0", "0">>, <<" ">>, <<"Z", "Z">>,
          <<"A", "B", "C", " ">>, <<"0", "1">>, <<"X", "Y", "Z", " ">>,
          <<"2", "3", "1", "2", "1", "3">>, <<"1", "1", "2", "9">>, <<"U">>,
          <<"0", "0", "4", "0", "1">>,
          <<"1", "2", "3", "4", "5", "6", "7", "8", "9", "0">>, <<"0">>, <<"P">>, <<">">>,
          <<"X">>>>,
      \* an ISA with an empty control number and the same id on both sides
      ISANoControl |->
        <<<<"I", "S", "A">>, <<"0", "0">>, <<" ">>, <<"0", "0">>, <<" ">>, <<"Z", "Z">>,
          <<"S", "N", "D", " ">>, <<"0", "1">>, <<"S", "N", "D", " ">>,
          <<"2", "3", "1", "2", "1", "3">>, <<"1", "1", "2", "9">>, <<"U">>,
          <<"0", "0", "4", "0", "1">>, <<>>, <<"0">>, <<"P">>, <<">">>>>
    ]

\* sample_edi_content of tests/test_local_processing.py, segment by segment
SampleSegments ==
    <<
      \* ISA*00*          *00*          *ZZ*SENDER         *ZZ*RECEIVER       *231213*1129*U*00401*000000001*0*P*>
      <<<<"I", "S", "A">>, <<"0", "0">>,
        <<" ", " ", " ", " ", " ", " ", " ", " ", " ", " ">>, <<"0", "0">>,
        <<" ", " ", " ", " ", " ", " ", " ", " ", " ", " ">>, <<"Z", "Z">>,
        <<"S", "E", "N", "D", "E", "R", " ", " ", " ", " ", " ", " ", " ", " ", " ">>,
        <<"Z", "Z">>,
        <<"R", "E", "C", "E", "I", "V", "E", "R", " ", " ", " ", " ", " ", " ", " ">>,
        <<"2", "3", "1", "2", "1", "3">>, <<"1", "1", "2", "9">>, <<"U">>,
        <<"0", "0", "4", "0", "1">>, <<"0", "0", "0", "0", "0", "0", "0", "0", "1">>,
        <<"0">>, <<"P">>, <<">">>>>,
      \* GS*IN*SENDER*RECEIVER*20231213*1129*1*X*004010
      <<<<"G", "S">>, <<"I", "N">>, <<"S", "E", "N", "D", "E", "R">>,
        <<"R", "E", "C", "E", "I", "V", "E", "R">>,
        <<"2", "0", "2", "3", "1", "2", "1", "3">>, <<"1", "1", "2", "9">>, <<"1">>,
        <<"X">>, <<"0", "0", "4", "0", "1", "0">>>>,
      \* ST*810*0001
      <<<<"S", "T">>, <<"8", "1", "0">>, <<"0", "0", "0", "1">>>>,
      \* BIG*20231213*INV001*20231213*PO001
      <<<<"B", "I", "G">>, <<"2", "0", "2", "3", "1", "2", "1", "3">>,
        <<"I", "N", "V", "0", "0", "1">>, <<"2", "0", "2", "3", "1", "2", "1", "3">>,
        <<"P", "O", "0", "0", "1">>>>,
      \* N1*ST*BUYER NAME*92*BUYER
      <<<<"N", "1">>, <<"S", "T">>, <<"B", "U", "Y", "E", "R", " ", "N", "A", "M", "E">>,
        <<"9", "2">>, <<"B", "U", "Y", "E", "R">>>>,
      \* N1*SE*VENDOR NAME*92*VENDOR
      <<<<"N", "1">>, <<"S", "E">>,
        <<"V", "E", "N", "D", "O", "R", " ", "N", "A", "M", "E">>, <<"9", "2">>,
        <<"V", "E", "N", "D", "O", "R">>>>,
      \* IT1*1*10*EA*100.00**BP*PROD001*UA*DESC001
      <<<<"I", "T", "1">>, <<"1">>, <<"1", "0">>, <<"E", "A">>,
        <<"1", "0", "0", ".", "0", "0">>, <<>>, <<"B", "P">>,
        <<"P", "R", "O", "D", "0", "0", "1">>, <<"U", "A">>,
        <<"D", "E", "S", "C", "0", "0", "1">>>>,
      \* TXI*ST*1000
      <<<<"T", "X", "I">>, <<"S", "T">>, <<"1", "0", "0", "0">>>>,
      \* SAC*A*C310*VP*01*500
      <<<<"S", "A", "C">>, <<"A">>, <<"C", "3", "1", "0">>, <<"V", "P">>, <<"0", "1">>,
        <<"5", "0", "0">>>>,
      \* IT1*2*5*EA*200.00**BP*PROD002*UA*DESC002
      <<<<"I", "T", "1">>, <<"2">>, <<"5">>, <<"E", "A">>,
        <<"2", "0", "0", ".", "0", "0">>, <<>>, <<"B", "P">>,
        <<"P", "R", "O", "D", "0", "0", "2">>, <<"U", "A">>,
        <<"D", "E", "S", "C", "0", "0", "2">>>>,
      \* TXI*ST*2000
      <<<<"T", "X", "I">>, <<"S", "T">>, <<"2", "0", "0", "0">>>>,
      \* SAC*A*C310*VP*01*1000
      <<<<"S", "A", "C">>, <<"A">>, <<"C", "3", "1", "0">>, <<"V", "P">>, <<"0", "1">>,
        <<"1", "0", "0", "0">>>>,
      \* CTT*2
      <<<<"C", "T", "T">>, <<"2">>>>,
      \* SE*13*0001
      <<<<"S", "E">>, <<"1", "3">>, <<"0", "0", "0", "1">>>>,
      \* GE*1*1
      <<<<"G", "E">>, <<"1">>, <<"1">>>>,
      \* IEA*1*000000001
      <<<<"I", "E", "A">>, <<"1">>, <<"0", "0", "0", "0", "0", "0", "0", "0", "1">>>>
    >>

\* the delimiters a document is written with, and the line break it puts
\* after each segment terminator
Standard == [es |-> <<"*">>, st |-> <<"~">>, lb |-> <<>>]

OtherStyles ==
    {[es |-> <<"*">>, st |-> <<"~">>, lb |-> <<"\n">>],
     [es |-> <<"^">>, st |-> <<"|">>, lb |-> <<>>],
     [es |-> <<"^">>, st |-> <<"|">>, lb |-> <<"\n">>]}

Styles == {Standard} \cup OtherStyles

RECURSIVE Render(_, _)
Render(style, segs) ==
    IF segs = <<>> THEN <<>>
    ELSE Join(Head(segs), style.es) \o style.st \o style.lb \o Render(style, Tail(segs))

\* how a document begins
Stems ==
    {<<>>, <<Seg.ISA>>, <<Seg.ISAShort>>,
     <<Seg.ISA, Seg.BIG1>>, <<Seg.ISA, Seg.BIG1, Seg.IT1>>,
     <<Seg.ISA, Seg.BIGCredit>>, <<Seg.ISA, Seg.BIGCredit, Seg.IT1>>}

\* the segments a document goes on with
Catalogue ==
    {Seg.BIG2, Seg.BIGCredit, Seg.BIGBad, Seg.IT1, Seg.IT1Half, Seg.PID,
     Seg.SAC, Seg.SACTax, Seg.TXI, Seg.TXITotal, Seg.REF,
     Seg.TDS, Seg.TDS2, Seg.TDS3, Seg.TDSFour, Seg.TDSDiscount}

\* the number of segments after the stem, in a document with the standard
\* delimiters and in a document of another style
MaxTail == 2

MaxStyledTail == 1

RECURSIVE SeqsUpTo(_, _)
SeqsUpTo(S, n) ==
    IF n = 0 THEN {<<>>}
    ELSE LET shorter == SeqsUpTo(S, n - 1)
         IN  shorter \cup {Append(t, x) : t \in {u \in shorter : Len(u) = n - 1}, x \in S}

\* texts that are no sequence of segments
RawDocs == {<<>>, Tag.ISA, <<" ", "\n">>, Tag.ISA \o <<"*">>}

\* the test fixture, as the test writes it and in the other styles
SampleDocs == {Render(sty, SampleSegments) : sty \in Styles}

DocsOf(stems, catalogue) ==
    {Render(Standard, stem \o tail) : stem \in stems, tail \in SeqsUpTo(catalogue, MaxTail)}
    \cup {Render(sty, stem \o tail) : sty \in OtherStyles, stem \in stems,
                                     tail \in SeqsUpTo(catalogue, MaxStyledTail)}

\* N1 segments by role code, one without a name element
SegN1 ==
    [
      \* N1*SE*V1
      Vendor |->
        <<<<"N", "1">>, <<"S", "E">>, <<"V", "1">>>>,
      \* N1*BY*B1
      Buyer |->
        <<<<"N", "1">>, <<"B", "Y">>, <<"B", "1">>>>,
      \* N1*ST*S1
      ShipTo |->
        <<<<"N", "1">>, <<"S", "T">>, <<"S", "1">>>>,
      \* N1*BT*T1
      BillTo |->
        <<<<"N", "1">>, <<"B", "T">>, <<"T", "1">>>>,
      \* N1*SF*F1
      ShipFrom |->
        <<<<"N", "1">>, <<"S", "F">>, <<"F", "1">>>>,
      \* N1*RI*R1
      Other |->
        <<<<"N", "1">>, <<"R", "I">>, <<"R", "1">>>>,
      \* N1*SE
      Short |->
        <<<<"N", "1">>, <<"S", "E">>>>
    ]

\* documents of N1 segments, before and after a BIG
MaxParties == 2

PartyDocs ==
    {Render(Standard, stem \o tail) :
        stem \in {<<Seg.ISA>>, <<Seg.ISA, Seg.BIG1>>},
        tail \in SeqsUpTo({SegN1.Vendor, SegN1.Buyer, SegN1.ShipTo, SegN1.BillTo,
                           SegN1.ShipFrom, SegN1.Other,
                           SegN1.Short}, MaxParties)}

\* ISA segments of a second interchange: whole, cut after the sender id, and
\* cut after the receiver id
SegISA ==
    [
      \* ISA*00* *00* *ZZ*SN2 *01*RC2 *231214*1130*U*00401*13*0*P*>
      Second |->
        <<<<"I", "S", "A">>, <<"0", "0">>, <<" ">>, <<"0", "0">>, <<" ">>, <<"Z", "Z">>,
          <<"S", "N", "2", " ">>, <<"0", "1">>, <<"R", "C", "2", " ">>, <<"2", "3", "1", "2",
          "1", "4">>, <<"1", "1", "3", "0">>, <<"U">>, <<"0", "0", "4", "0", "1">>, <<"1",
          "3">>, <<"0">>, <<"P">>, <<">">>>>,
      \* ISA*00* *00* *ZZ*SN3 
      Seven |->
        <<<<"I", "S", "A">>, <<"0", "0">>, <<" ">>, <<"0", "0">>, <<" ">>, <<"Z", "Z">>,
          <<"S", "N", "3", " ">>>>,
      \* ISA*00* *00* *ZZ*SN4 *01*RC4 
      Nine |->
        <<<<"I", "S", "A">>, <<"0", "0">>, <<" ">>, <<"0", "0">>, <<" ">>, <<"Z", "Z">>,
          <<"S", "N", "4", " ">>, <<"0", "1">>, <<"R", "C", "4", " ">>>>
    ]

\* documents of several interchanges: the number of segments after the first
\* ISA
MaxHeaders == 3

HeaderDocs ==
    {Render(Standard, <<Seg.ISA>> \o tail) :
        tail \in SeqsUpTo({SegISA.Second, SegISA.Seven, SegISA.Nine, Seg.BIG1, Seg.BIG2},
                          MaxHeaders)}

\* SAC segments: a charge that is no tax, amounts written with a minus sign,
\* an amount with half a cent, a segment of five elements, another indicator,
\* and an amount that is no number
SegSAC ==
    [
      \* SAC*C*D240*VP*01*300
      Charge |->
        <<<<"S", "A", "C">>, <<"C">>, <<"D", "2", "4", "0">>, <<"V", "P">>, <<"0", "1">>,
          <<"3", "0", "0">>>>,
      \* SAC*A*C310*VP*01*-500
      Negative |->
        <<<<"S", "A", "C">>, <<"A">>, <<"C", "3", "1", "0">>, <<"V", "P">>, <<"0", "1">>,
          <<"-", "5", "0", "0">>>>,
      \* SAC*C*D240*VP*01*-300
      NegativeCharge |->
        <<<<"S", "A", "C">>, <<"C">>, <<"D", "2", "4", "0">>, <<"V", "P">>, <<"0", "1">>,
          <<"-", "3", "0", "0">>>>,
      \* SAC*A*C310*VP*01*1250.5
      HalfCent |->
        <<<<"S", "A", "C">>, <<"A">>, <<"C", "3", "1", "0">>, <<"V", "P">>, <<"0", "1">>,
          <<"1", "2", "5", "0", ".", "5">>>>,
      \* SAC*A*C310*VP*01
      Short |->
        <<<<"S", "A", "C">>, <<"A">>, <<"C", "3", "1", "0">>, <<"V", "P">>, <<"0", "1">>>>,
      \* SAC*N*C310*VP*01*500
      Other |->
        <<<<"S", "A", "C">>, <<"N">>, <<"C", "3", "1", "0">>, <<"V", "P">>, <<"0", "1">>,
          <<"5", "0", "0">>>>,
      \* SAC*A*C310*VP*01*X5
      Bad |->
        <<<<"S", "A", "C">>, <<"A">>, <<"C", "3", "1", "0">>, <<"V", "P">>, <<"0", "1">>,
          <<"X", "5">>>>
    ]

\* documents of SAC segments at invoice level and on a line item, of an
\* invoice and of a credit: the number of SAC segments
MaxCharges == 2

ChargeDocs ==
    {Render(Standard, stem \o tail) :
        stem \in {<<Seg.ISA>>, <<Seg.ISA, Seg.BIG1>>, <<Seg.ISA, Seg.BIG1, Seg.IT1>>,
                  <<Seg.ISA, Seg.BIGCredit>>, <<Seg.ISA, Seg.BIGCredit, Seg.IT1>>},
        tail \in SeqsUpTo({Seg.SAC, Seg.SACTax, SegSAC.Charge, SegSAC.Negative,
                           SegSAC.NegativeCharge, SegSAC.HalfCent, SegSAC.Short,
                           SegSAC.Other, SegSAC.Bad}, MaxCharges)}

\* TXI segments: an amount written with a decimal point, the local sales tax
\* code, a segment without an amount, and an amount that is no number
SegTXI ==
    [
      \* TXI*ST*12.5
      Dotted |->
        <<<<"T", "X", "I">>, <<"S", "T">>, <<"1", "2", ".", "5">>>>,
      \* TXI*LS*700
      Local |->
        <<<<"T", "X", "I">>, <<"L", "S">>, <<"7", "0", "0">>>>,
      \* TXI*ST
      Short |->
        <<<<"T", "X", "I">>, <<"S", "T">>>>,
      \* TXI*ST*X5
      Bad |->
        <<<<"T", "X", "I">>, <<"S", "T">>, <<"X", "5">>>>
    ]

\* documents of TXI segments, before a BIG, after it and after an IT1: the
\* number of segments after the stem
MaxTaxes == 2

TaxDocs ==
    {Render(Standard, stem \o tail) :
        stem \in {<<Seg.ISA>>, <<Seg.ISA, Seg.BIG1>>, <<Seg.ISA, Seg.BIG1, Seg.IT1>>},
        tail \in SeqsUpTo({Seg.TXI, Seg.TXITotal, SegTXI.Dotted, SegTXI.Local,
                           SegTXI.Short, SegTXI.Bad}, MaxTaxes)}

Docs == DocsOf(Stems, Catalogue) \cup SampleDocs \cup RawDocs
        \cup PartyDocs \cup HeaderDocs \cup ChargeDocs \cup TaxDocs

(***************************************************************************)
(* parse_content                                                           *)
(***************************************************************************)
NoItem == [state |-> "none"]

NoGen == [state |-> "none"]

NoSftp == [state |-> "none"]

OtherObjectsIdle == UNCHANGED <<item, lpc, gen, sftp>>

OtherVarsIdle == OtherObjectsIdle /\ UNCHANGED calls

\* lines 176-181 for segments[i]: the loop is over ("end"), the segment is
\* skipped ("blank"), str.split raises ValueError("empty separator") outside
\* the try ("raise"), or the segment has its elements
LoadSegment(segs, i, element_separator) ==
    IF i > Len(segs) THEN [kind |-> "end"]
    ELSE IF Strip(segs[i]) = <<>> THEN [kind |-> "blank"]
    ELSE IF element_separator = <<>> THEN [kind |-> "raise"]
    ELSE [kind |-> "elements", elements |-> Split(segs[i], element_separator)]

\* parse_content as a function of the instance and the text: the loop of
\* lines 176-398 run to its end.  First the branch of the if/elif chain that
\* takes a segment with its elements.
HandleSegment(p, elements, segment) ==
    LET segment_id == El(elements, 0)
    IN  CASE segment_id = Tag.ISA -> HandleISA(p, elements, segment)
          [] segment_id = Tag.GS -> HandleHeader(p, "GS", segment)
          [] segment_id = Tag.ST -> HandleHeader(p, "ST", segment)
          [] segment_id = Tag.GE -> HandleHeader(p, "GE", segment)
          [] segment_id = Tag.BIG -> HandleBIG(p, elements)
          [] segment_id = Tag.N1 -> HandleN1(p, elements)
          [] segment_id = Tag.IT1 -> HandleIT1(p, elements)
          [] segment_id = Tag.PID -> HandlePID(p, elements)
          [] segment_id = Tag.SAC -> HandleSAC(p, segment)
          [] segment_id = Tag.TXI -> HandleTXI(p, elements)
          [] IsGLRef(elements) -> HandleREF(p, elements)
          [] segment_id = Tag.TDS -> HandleTDS(p, elements)
          [] OTHER -> Quiet(p)

\* for segment in segments, from segment i on
RECURSIVE RunLoop(_, _, _)
RunLoop(p, segs, i) ==
    LET c == LoadSegment(segs, i, p.element_separator)
    IN  CASE c.kind = "end" -> [pc |-> "returned", px |-> p]
          [] c.kind = "raise" -> [pc |-> "raised", px |-> p]
          [] c.kind = "blank" -> RunLoop(p, segs, i + 1)
          [] OTHER -> RunLoop(HandleSegment(p, c.elements, segs[i]), segs, i + 1)

\* parse_content(text) on an instance in state p: how it ends (pc) and the
\* instance and the locals at that point (px)
parse_content(p, text) ==
    LET c  == clean_content(p, text)
        p1 == detect_separators(p, c)
    IN  RunLoop(EnterCall(p1), Split(c, p1.segment_terminator), 1)

Init ==
    /\ content \in Docs
    /\ segments = <<>>
    /\ idx = 0
    /\ cur = [kind |-> "end"]
    /\ pc = "start"
    /\ px = NewParser
    /\ item = NoItem
    /\ lpc = "idle"
    /\ gen = NoGen
    /\ sftp = NoSftp
    /\ calls = 1

\* lines 168-175: clean, detect, split
ParseContent ==
    /\ pc = "start"
    /\ \E c \in {clean_content(px, content)} :
       \E p \in {detect_separators(px, c)} :
       \E segs \in {Split(c, p.segment_terminator)} :
          /\ content' = c
          /\ px' = EnterCall(p)
          /\ segments' = segs
          /\ cur' = LoadSegment(segs, 1, p.element_separator)
    /\ idx' = 1
    /\ pc' = "loop"
    /\ OtherVarsIdle

segment == segments[idx]

elements == cur.elements

segment_id == El(elements, 0)

\* the loop has a segment with elements, whose tag is tag
At(tag) == pc = "loop" /\ cur.kind = "elements" /\ segment_id = tag

\* the loop goes on to the next segment with parser state p
Advance(p) ==
    /\ px' = p
    /\ idx' = idx + 1
    /\ cur' = LoadSegment(segments, idx + 1, p.element_separator)
    /\ UNCHANGED <<content, segments, pc>>
    /\ OtherVarsIdle

\* if not segment.strip(): continue
SkipBlank ==
    /\ pc = "loop" /\ cur.kind = "blank"
    /\ Advance(px)

\* str.split raises ValueError("empty separator") at line 180, outside the try
SplitRaises ==
    /\ pc = "loop" /\ cur.kind = "raise"
    /\ pc' = "raised"
    /\ UNCHANGED <<content, segments, idx, cur, px>>
    /\ OtherVarsIdle

ProcessISA == At(Tag.ISA) /\ Advance(HandleISA(px, elements, segment))

ProcessGS == At(Tag.GS) /\ Advance(HandleHeader(px, "GS", segment))

ProcessST == At(Tag.ST) /\ Advance(HandleHeader(px, "ST", segment))

ProcessGE == At(Tag.GE) /\ Advance(HandleHeader(px, "GE", segment))

ProcessBIG == At(Tag.BIG) /\ Advance(HandleBIG(px, elements))

ProcessN1 == At(Tag.N1) /\ Advance(HandleN1(px, elements))

ProcessIT1 == At(Tag.IT1) /\ Advance(HandleIT1(px, elements))

ProcessPID == At(Tag.PID) /\ Advance(HandlePID(px, elements))

ProcessSAC == At(Tag.SAC) /\ Advance(HandleSAC(px, segment))

ProcessTXI == At(Tag.TXI) /\ Advance(HandleTXI(px, elements))

ProcessREF == At(Tag.REF) /\ IsGLRef(elements) /\ Advance(HandleREF(px, elements))

ProcessTDS == At(Tag.TDS) /\ Advance(HandleTDS(px, elements))

Handled == {Tag.ISA, Tag.GS, Tag.ST, Tag.GE, Tag.BIG, Tag.N1, Tag.IT1, Tag.PID, Tag.SAC, Tag.TXI, Tag.TDS}

\* no branch of the if/elif chain takes the segment
ProcessOther ==
    /\ pc = "loop" /\ cur.kind = "elements"
    /\ segment_id \notin Handled /\ ~IsGLRef(elements)
    /\ Advance(Quiet(px))

\* return invoices
Return ==
    /\ pc = "loop" /\ cur.kind = "end"
    /\ pc' = "returned"
    /\ UNCHANGED <<content, segments, idx, cur, px>>
    /\ OtherVarsIdle

Next ==
    \/ ParseContent
    \/ SkipBlank
    \/ SplitRaises
    \/ ProcessISA
    \/ ProcessGS
    \/ ProcessST
    \/ ProcessGE
    \/ ProcessBIG
    \/ ProcessN1
    \/ ProcessIT1
    \/ ProcessPID
    \/ ProcessSAC
    \/ ProcessTXI
    \/ ProcessREF
    \/ ProcessTDS
    \/ ProcessOther
    \/ Return

Spec == Init /\ [][Next]_vars

(***************************************************************************)
(* One parser instance given several documents: what __init__ and earlier  *)
(* calls left in self (the delimiters, original_segments) is what the next *)
(* call starts with                                                        *)
(***************************************************************************)
\* a whole document, in each style
WholeDocument ==
    <<Seg.ISA, Seg.GS, Seg.ST, Seg.BIG1, SegN1.Vendor, Seg.IT1, Seg.PID, Seg.SAC, Seg.TXI,
      Seg.REF, Seg.TDS, Seg.GE>>

\* documents for an instance that is used again: whole documents, documents
\* that do not begin with ISA, documents with an ST cut short, without GE or
\* without BIG, and texts that are no sequence of segments
ReuseDocs ==
    {Render(sty, WholeDocument) : sty \in Styles}
        \cup {Render(sty, <<Seg.GS, Seg.ST, Seg.BIG1, Seg.GE>>) : sty \in Styles}
        \cup {Render(sty, <<Seg.ISA, Seg.GS, Seg.STShort, Seg.BIG1, Seg.GE>>) : sty \in Styles}
        \cup {Render(sty, <<Seg.ISA, Seg.GS, Seg.ST, Seg.BIG1>>) : sty \in Styles}
        \cup {Render(sty, <<Seg.ISA, Seg.GS, Seg.ST, Seg.GE>>) : sty \in Styles}
        \cup RawDocs

\* the number of parse_content calls on one instance
MaxCalls == 2

InitReuse ==
    /\ content \in ReuseDocs
    /\ segments = <<>>
    /\ idx = 0
    /\ cur = [kind |-> "end"]
    /\ pc = "start"
    /\ px = NewParser
    /\ item = NoItem
    /\ lpc = "idle"
    /\ gen = NoGen
    /\ sftp = NoSftp
    /\ calls = 1

\* parse_content is called again on the instance, after it returned or raised
CallAgain ==
    /\ pc \in {"returned", "raised"}
    /\ calls < MaxCalls
    /\ content' \in ReuseDocs
    /\ segments' = <<>>
    /\ idx' = 0
    /\ cur' = [kind |-> "end"]
    /\ pc' = "start"
    /\ px' = EnterCall(px)
    /\ calls' = calls + 1
    /\ OtherObjectsIdle

NextReuse == Next \/ CallAgain

SpecReuse == InitReuse /\ [][NextReuse]_vars

(***************************************************************************)
(* EDILineItem through its own methods, in the order parse_content calls   *)
(* them: the constructor, set_transaction_type once, then add_allowance    *)
(* and add_tax                                                             *)
(***************************************************************************)
\* Decimal quantities 10, 0.5 and -2; unit prices 100.00 and 0.01
Quantities == {10 * Scale, Scale \div 2, -2 * Scale}

UnitPrices == {100 * Scale, Scale \div 100}

TransactionTypes == {<<>>, CR, <<"D", "I">>}

\* amounts -5.00, 10.00 and 0.13
AdjustmentAmounts == {-5 * Scale, 10 * Scale, 1300}

\* the number of allowances and taxes added to one line item
MaxAdjustments == 3

PartyVarsIdle == UNCHANGED <<content, segments, idx, cur, pc, px, gen, sftp, calls>>

InitLine ==
    /\ content = <<>>
    /\ segments = <<>>
    /\ idx = 0
    /\ cur = [kind |-> "end"]
    /\ pc = "idle"
    /\ px = NewParser
    /\ item = NoItem
    /\ lpc = "new"
    /\ gen = NoGen
    /\ sftp = NoSftp
    /\ calls = 0

Construct ==
    /\ lpc = "new"
    /\ \E quantity \in Quantities, unit_price \in UnitPrices :
          item' = EDILineItem(<<"1">>, quantity, unit_price, <<"E", "A">>,
                              <<"P">>, <<>>, <<>>)
    /\ lpc' = "constructed"
    /\ PartyVarsIdle

SetTransactionType ==
    /\ lpc = "constructed"
    /\ \E t \in TransactionTypes : item' = set_transaction_type(item, t)
    /\ lpc' = "typed"
    /\ PartyVarsIdle

CanAdd == lpc = "typed" /\ Len(item.allowances) + Len(item.taxes) < MaxAdjustments

AddAllowance ==
    /\ CanAdd
    /\ \E a \in AdjustmentAmounts :
          item' = add_allowance(item, Adjustment(<<"C">>, a, PROMOTIONAL_ALLOWANCE))
    /\ UNCHANGED lpc
    /\ PartyVarsIdle

AddTax ==
    /\ CanAdd
    /\ \E a \in AdjustmentAmounts :
          item' = add_tax(item, Adjustment(H850, a, SALES_TAX))
    /\ UNCHANGED lpc
    /\ PartyVarsIdle

NextLine ==
    \/ Construct
    \/ SetTransactionType
    \/ AddAllowance
    \/ AddTax

SpecLine == InitLine /\ [][NextLine]_vars

(***************************************************************************)
(* EDI997Generator                                                         *)
(***************************************************************************)
\* EDI997Config()
DefaultConfig ==
    [segment_terminator |-> <<"~">>, element_separator |-> <<"*">>,
     sub_element_separator |-> <<">">>,
     control_version_number |-> <<"0", "0", "4", "0", "1">>,
     functional_id_code |-> <<"F", "A">>, acknowledgment_code |-> <<"A">>]

\* the configuration of test_custom_config
CustomConfig ==
    [DefaultConfig EXCEPT !.segment_terminator = <<"|">>, !.element_separator = <<"^">>,
                          !.sub_element_separator = <<"&">>]

Configs == {DefaultConfig, CustomConfig}

\* validate_segments with an ISA threshold of 15
validate_segments_fifteen(config, isa_segment, st_segment, gs_segment) ==
    LET sep == config.element_separator
    IN  IF isa_segment = <<>> \/ ~StartsWith(isa_segment, Tag.ISA) THEN "invalid ISA"
        ELSE IF st_segment = <<>> \/ ~StartsWith(st_segment, Tag.ST) THEN "invalid ST"
        ELSE IF gs_segment = <<>> \/ ~StartsWith(gs_segment, Tag.GS) THEN "invalid GS"
        ELSE IF Len(Split(isa_segment, sep)) < 15 THEN "ISA elements"
        ELSE IF Len(Split(gs_segment, sep)) < 8 THEN "GS elements"
        ELSE IF Len(Split(st_segment, sep)) < 3 THEN "ST elements"
        ELSE "ok"

\* validate_segments: "ok", or which check fails first
validate_segments(config, isa_segment, st_segment, gs_segment) ==
    LET sep == config.element_separator
    IN  IF isa_segment = <<>> \/ ~StartsWith(isa_segment, Tag.ISA) THEN "invalid ISA"
        ELSE IF st_segment = <<>> \/ ~StartsWith(st_segment, Tag.ST) THEN "invalid ST"
        ELSE IF gs_segment = <<>> \/ ~StartsWith(gs_segment, Tag.GS) THEN "invalid GS"
        ELSE IF Len(Split(isa_segment, sep)) < 16 THEN "ISA elements"
        ELSE IF Len(Split(gs_segment, sep)) < 8 THEN "GS elements"
        ELSE IF Len(Split(st_segment, sep)) < 3 THEN "ST elements"
        ELSE "ok"

\* the mutant of get_control_numbers that reads the group control number one
\* element early
get_control_numbers_early(config, isa_segment, st_segment, gs_segment) ==
    LET isa_elements == Split(isa_segment, config.element_separator)
        gs_elements  == Split(gs_segment, config.element_separator)
        st_elements  == Split(st_segment, config.element_separator)
    IN  IF \/ Len(isa_elements) < 14
           \/ Len(gs_elements) < 6
           \/ Len(gs_elements) <= 6
           \/ Len(st_elements) < 3
        THEN [ok |-> FALSE]
        ELSE [ok |-> TRUE,
              isa_control |-> zfill(El(isa_elements, 13), 9),
              gs_control |-> El(gs_elements, 5),
              st_control |-> El(st_elements, 2),
              new_control |-> <<"1", "0", "0", "1">>]

\* get_control_numbers: ok = FALSE when it raises (every exception leaves it
\* as a ValueError)
get_control_numbers(config, isa_segment, st_segment, gs_segment) ==
    LET isa_elements == Split(isa_segment, config.element_separator)
        gs_elements  == Split(gs_segment, config.element_separator)
        st_elements  == Split(st_segment, config.element_separator)
    IN  IF \/ Len(isa_elements) < 14
           \/ Len(gs_elements) < 6
           \/ Len(gs_elements) <= 6      \* gs_elements[6]: IndexError
           \/ Len(st_elements) < 3
        THEN [ok |-> FALSE]
        ELSE [ok |-> TRUE,
              isa_control |-> zfill(El(isa_elements, 13), 9),
              gs_control |-> El(gs_elements, 6),
              st_control |-> El(st_elements, 2),
              new_control |-> <<"1", "0", "0", "1">>]

\* generate_997, lines 102-105: the parties of the original interchange
sender_id(isa_elements) == El(isa_elements, 6)

sender_qualifier(isa_elements) == El(isa_elements, 5)

\* the receiver read from the sender's position
receiver_id_unswapped(isa_elements) == El(isa_elements, 6)

receiver_id(isa_elements) == El(isa_elements, 8)

receiver_qualifier(isa_elements) == El(isa_elements, 7)

\* the segments generate_997 appends, in its order: the ISA alone when the GS
\* check of line 132 raises after it
BuildSegments(config, isa_segment, st_segment, gs_segment, date, time) ==
    LET sep == config.element_separator
        cn  == get_control_numbers(config, isa_segment, st_segment, gs_segment)
        isa_elements == Split(isa_segment, sep)
        gs_elements  == Split(gs_segment, sep)
        snd == sender_id(isa_elements)
        sq  == sender_qualifier(isa_elements)
        rcv == receiver_id(isa_elements)
        rq  == receiver_qualifier(isa_elements)
        code == config.acknowledgment_code
        isa == Join(<<Tag.ISA, El(isa_elements, 1), El(isa_elements, 2), El(isa_elements, 3),
                  El(isa_elements, 4), rq, rcv, sq, snd, date, time,
                  config.control_version_number, cn.isa_control, <<"0">>, <<"P">>,
                  config.sub_element_separator>>, sep)
    IN  IF Len(gs_elements) < 8 THEN <<isa>> ELSE
        << isa,
           Join(<<Tag.GS, config.functional_id_code, rcv, snd, date, time,
                  cn.gs_control, <<"X">>, config.control_version_number>>, sep),
           Join(<<Tag.ST, <<"9", "9", "7">>, cn.new_control>>, sep),
           Join(<<<<"A", "K", "1">>, El(gs_elements, 1), cn.gs_control>>, sep),
           Join(<<<<"A", "K", "2">>, <<"8", "1", "0">>, cn.st_control>>, sep),
           Join(<<<<"A", "K", "5">>, code>>, sep),
           Join(<<<<"A", "K", "9">>, code, <<"1">>, <<"1">>, <<"1">>>>, sep),
           Join(<<<<"S", "E">>, <<"7">>, cn.new_control>>, sep),
           Join(<<Tag.GE, <<"1">>, cn.gs_control>>, sep),
           Join(<<<<"I", "E", "A">>, <<"1">>, cn.isa_control>>, sep) >>

\* the join without the trailing terminator
JoinSegmentsNoTrailer(config, segs) == Join(segs, config.segment_terminator)

\* self.config.segment_terminator.join(segments) + self.config.segment_terminator
JoinSegments(config, segs) ==
    Join(segs, config.segment_terminator) \o config.segment_terminator

Star == <<"*">>

Caret == <<"^">>

IsaInputs ==
    {<<>>, Join(Seg.ISA, Star), Join(Seg.ISA, Caret), Join(Seg.ISAShort, Star),
     Join(Seg.ISATilde, Star), Join(Seg.ISATilde, Caret), Join(Seg.ISAFifteen, Star),
     Join(Seg.ISALong, Star), Join(Seg.ISALong, Caret), Join(Seg.ISANoControl, Star),
     Join(Seg.GS, Star)}

StInputs ==
    {<<>>, Join(Seg.ST, Star), Join(Seg.ST, Caret), Join(Seg.STShort, Star),
     Join(Seg.SE, Star)}

GsInputs ==
    {<<>>, Join(Seg.GS, Star), Join(Seg.GS, Caret), Join(Seg.GSShort, Star),
     Join(Seg.GE, Star)}

\* what get_current_datetime may return: (date, time)
Clock ==
    {<<<<"2", "3", "1", "2", "1", "3">>, <<"1", "1", "2", "9">>>>,
     <<<<"2", "6", "1", "1", "0", "1">>, <<"0", "0", "0", "0">>>>}

ParserVarsIdle == UNCHANGED <<content, segments, idx, cur, pc, px, item, lpc, sftp, calls>>

InitGen ==
    /\ content = <<>>
    /\ segments = <<>>
    /\ idx = 0
    /\ cur = [kind |-> "end"]
    /\ pc = "idle"
    /\ px = NewParser
    /\ item = NoItem
    /\ lpc = "idle"
    /\ \E config \in Configs, isa \in IsaInputs, st \in StInputs, gs \in GsInputs :
          gen = [state |-> "called", config |-> config, isa_segment |-> isa,
                 st_segment |-> st, gs_segment |-> gs, error |-> "none",
                 segments |-> <<>>, output |-> None]
    /\ sftp = NoSftp
    /\ calls = 0

\* generate_997, lines 90-92: the validation, which raises or lets it go on
Validate ==
    /\ gen.state = "called"
    /\ \E v \in {validate_segments(gen.config, gen.isa_segment, gen.st_segment,
                                   gen.gs_segment)} :
          gen' = IF v = "ok" THEN [gen EXCEPT !.state = "validated"]
                 ELSE [gen EXCEPT !.state = "raised", !.error = v]
    /\ ParserVarsIdle

\* generate_997, lines 94-179: the segments and the joined text
Generate ==
    /\ gen.state = "validated"
    /\ \E now \in Clock :
       \E segs \in {IF get_control_numbers(gen.config, gen.isa_segment,
                                           gen.st_segment, gen.gs_segment).ok
                    THEN BuildSegments(gen.config, gen.isa_segment, gen.st_segment,
                                       gen.gs_segment, now[1], now[2])
                    ELSE <<>>} :
          gen' = IF Len(segs) = 10
                 THEN [gen EXCEPT !.state = "returned", !.segments = segs,
                                  !.output = Some(JoinSegments(gen.config, segs))]
                 ELSE [gen EXCEPT !.state = "raised", !.segments = segs,
                                  !.error = "generating"]
    /\ ParserVarsIdle

NextGen ==
    \/ Validate
    \/ Generate

SpecGen == InitGen /\ [][NextGen]_vars

(***************************************************************************)
(* app.py, the loop over the uploaded files: a new parser for each file,   *)
(* parse_content, then a 997 from the captured headers with the default    *)
(* EDI997Config                                                            *)
(***************************************************************************)
\* lines 294-313: the two checks that raise before the generator is made
\* ("refused"), else the call of generate_997 with config = EDI997Config()
Acknowledge ==
    /\ pc = "returned"
    /\ gen.state = "none"
    /\ gen' = IF px.invoices = <<>>
              THEN [state |-> "refused", error |-> "no invoices"]
              ELSE IF \E t \in DOMAIN px.original_segments : px.original_segments[t] = None
              THEN [state |-> "refused", error |-> "missing segments"]
              ELSE [state |-> "called", config |-> DefaultConfig,
                    isa_segment |-> px.original_segments["ISA"][1],
                    st_segment |-> px.original_segments["ST"][1],
                    gs_segment |-> px.original_segments["GS"][1],
                    error |-> "none", segments |-> <<>>, output |-> None]
    /\ ParserVarsIdle

NextLocal ==
    \/ Next
    \/ Acknowledge
    \/ Validate
    \/ Generate

SpecLocal == InitReuse /\ [][NextLocal]_vars

(***************************************************************************)
(* SFTPHandler: the home directory and _validate_path.  Paths are texts    *)
(* like the documents: sequences of characters.                            *)
(***************************************************************************)
Slash == <<"/">>

DotDot == <<".", ".">>

\* str.lstrip('/')
lstrip(text) ==
    LET firsts == {i \in 1..Len(text) : text[i] # "/"}
    IN  IF firsts = {} THEN <<>>
        ELSE SubSeq(text, CHOOSE i \in firsts : \A j \in firsts : i <= j, Len(text))

\* str.rstrip("/")
rstrip(text) ==
    LET lasts == {i \in 1..Len(text) : text[i] # "/"}
    IN  IF lasts = {} THEN <<>>
        ELSE SubSeq(text, 1, CHOOSE i \in lasts : \A j \in lasts : j <= i)

\* posixpath.join(a, b)
posixpath_join(a, b) ==
    IF StartsWith(b, Slash) THEN b
    ELSE IF a = <<>> \/ a[Len(a)] = "/" THEN a \o b
    ELSE a \o Slash \o b

\* the loop of posixpath.normpath over the first n components: new_comps
RECURSIVE new_comps(_, _, _)
new_comps(comps, n, initial_slashes) ==
    IF n = 0 THEN <<>>
    ELSE LET new  == new_comps(comps, n - 1, initial_slashes)
             comp == comps[n]
         IN  IF comp \in {<<>>, <<".">>} THEN new
             ELSE IF \/ comp # DotDot
                     \/ (initial_slashes = 0 /\ new = <<>>)
                     \/ (new # <<>> /\ new[Len(new)] = DotDot)
                  THEN Append(new, comp)
                  ELSE IF new # <<>> THEN SubSeq(new, 1, Len(new) - 1) ELSE new

posixpath_normpath(path) ==
    LET initial_slashes ==
            IF ~StartsWith(path, Slash) THEN 0
            ELSE IF StartsWith(path, <<"/", "/">>) /\ ~StartsWith(path, <<"/", "/", "/">>)
                 THEN 2 ELSE 1
        comps  == Split(path, Slash)
        joined == Join(new_comps(comps, Len(comps), initial_slashes), Slash)
        out    == [i \in 1..initial_slashes |-> "/"] \o joined
    IN  IF path = <<>> \/ out = <<>> THEN <<".">> ELSE out

\* SFTPHandler._validate_path: the normalized path, or ValueError
validate_path(home_dir, path) ==
    LET rel_path   == IF StartsWith(path, Slash) THEN lstrip(path) ELSE path
        full_path  == posixpath_join(home_dir, rel_path)
        normalized == posixpath_normpath(full_path)
    IN  IF ~StartsWith(normalized, home_dir)
        THEN [res |-> "raise", error |-> "ValueError"]
        ELSE [res |-> "return", path |-> normalized]

\* the home directories handlers are configured with: the default, the test's
\* /home/test (as /h/t), its parent, and one written with a trailing slash
Homes == {Slash, <<"/", "h">>, <<"/", "h", "/">>, <<"/", "h", "/", "t">>}

\* the components paths are made of
Components == {DotDot, <<".">>, <<"x">>, <<"t", "2">>}

\* the number of components of a path
MaxDepth == 3

\* relative paths, and the same paths written with a leading slash
Paths ==
    LET relative == {Join(comps, Slash) : comps \in SeqsUpTo(Components, MaxDepth)}
    IN  relative \cup {Slash \o path : path \in relative}

SftpVarsIdle == UNCHANGED <<content, segments, idx, cur, pc, px, item, lpc, gen, calls>>

\* SFTPHandler(hostname, username, password, home_dir)
InitPath ==
    /\ content = <<>>
    /\ segments = <<>>
    /\ idx = 0
    /\ cur = [kind |-> "end"]
    /\ pc = "idle"
    /\ px = NewParser
    /\ item = NoItem
    /\ lpc = "idle"
    /\ gen = NoGen
    /\ calls = 0
    /\ \E home \in Homes :
          sftp = [state |-> "new", home |-> home, home_dir |-> rstrip(home),
                  path |-> <<>>, result |-> [res |-> "none"]]

\* a call of _validate_path
ValidatePath ==
    /\ sftp.state \in {"new", "validated"}
    /\ \E path \in Paths :
          sftp' = [sftp EXCEPT !.state = "validated", !.path = path,
                               !.result = validate_path(sftp.home_dir, path)]
    /\ SftpVarsIdle

NextPath == ValidatePath

SpecPath == InitPath /\ [][NextPath]_vars

(***************************************************************************)
(* SFTPHandler: connect and disconnect.  An SSH client is named by the     *)
(* number of the connect() call that created it, and the SFTP channel      *)
(* opened on a client carries the client's number; 0 stands for None.      *)
(***************************************************************************)
MaxConnects == 4

\* SFTPHandler(...): self.ssh = None, self.sftp = None
InitConn ==
    /\ content = <<>>
    /\ segments = <<>>
    /\ idx = 0
    /\ cur = [kind |-> "end"]
    /\ pc = "idle"
    /\ px = NewParser
    /\ item = NoItem
    /\ lpc = "idle"
    /\ gen = NoGen
    /\ calls = 0
    /\ sftp = [state |-> "handler", ssh |-> 0, sftp |-> 0, made |-> 0,
               clients |-> {}, channels |-> {}, last |-> "created"]

\* connect(): a new SSHClient is bound to self.ssh whatever self.ssh held;
\* ssh.connect or open_sftp may raise, and the exception is raised again
Connect ==
    /\ sftp.state = "handler"
    /\ sftp.made < MaxConnects
    /\ LET n == sftp.made + 1 IN
       \E outcome \in {"connect raises", "open_sftp raises", "connected"} :
          sftp' = CASE outcome = "connect raises" ->
                         [sftp EXCEPT !.ssh = n, !.made = n, !.last = "connect raised"]
                    [] outcome = "open_sftp raises" ->
                         [sftp EXCEPT !.ssh = n, !.made = n,
                                      !.clients = @ \cup {n},
                                      !.last = "connect raised"]
                    [] OTHER ->
                         [sftp EXCEPT !.ssh = n, !.sftp = n, !.made = n,
                                      !.clients = @ \cup {n},
                                      !.channels = @ \cup {n},
                                      !.last = "connected"]
    /\ SftpVarsIdle

\* disconnect(): closes self.sftp and then self.ssh when they are set, and
\* sets each to None after its close(); a close() that raises ends the call.
\* Closing a client closes its transport and the channel opened on it.
Disconnect ==
    /\ sftp.state = "handler"
    /\ \E outcome \in {"sftp.close raises", "ssh.close raises", "disconnected"} :
          sftp' = CASE outcome = "sftp.close raises" /\ sftp.sftp # 0 ->
                         [sftp EXCEPT !.last = "disconnect raised"]
                    [] outcome = "ssh.close raises" /\ sftp.ssh # 0 ->
                         [sftp EXCEPT !.sftp = 0,
                                      !.channels = @ \ {sftp.sftp},
                                      !.last = "disconnect raised"]
                    [] OTHER ->
                         [sftp EXCEPT !.sftp = 0, !.ssh = 0,
                                      !.channels = @ \ {sftp.sftp, sftp.ssh},
                                      !.clients = @ \ {sftp.ssh},
                                      !.last = "disconnected"]
    /\ SftpVarsIdle

NextConn == Connect \/ Disconnect

SpecConn == InitConn /\ [][NextConn]_vars

(***************************************************************************)
(* app.py, process_sftp_file(sftp, filename): the file is downloaded from  *)
(* incoming/, parsed by a new parser, acknowledged with the default        *)
(* EDI997Config, shown, moved to processed/ and its 997 uploaded to        *)
(* ack_997/.  An exception ends the call; the caller does not catch it.    *)
(***************************************************************************)
\* the columns of the invoice summary of the local tab, lines 345-351
summary_columns_local ==
    {"Invoice Number", "Invoice Date", "PO Number", "Sender ID", "Receiver ID",
     "Control Number", "Transaction Type", "Total Amount", "Line Items Subtotal",
     "Total Allowances", "Total Taxes", "Vendor Name", "Buyer Name",
     "Ship To Name", "Bill To Name", "Ship From Name"}

\* lines 142-148: the columns of the invoice summary
summary_columns ==
    {"Invoice Number", "Invoice Date", "PO Number", "Sender ID", "Receiver ID",
     "Control Number", "Total Amount", "Line Items Subtotal", "Total Allowances",
     "Total Taxes", "Total TDS Discounts", "Vendor Name", "Buyer Name",
     "Ship To Name", "Bill To Name", "Ship From Name"}

\* the call of process_sftp_file for a file that is in incoming/
InitFile ==
    /\ content = <<>>
    /\ segments = <<>>
    /\ idx = 0
    /\ cur = [kind |-> "end"]
    /\ pc = "idle"
    /\ px = NewParser
    /\ item = NoItem
    /\ lpc = "idle"
    /\ gen = NoGen
    /\ calls = 0
    /\ sftp = [state |-> "file", step |-> "called", incoming |-> TRUE,
               processed |-> FALSE, ack_997 |-> FALSE, warned |-> FALSE,
               error |-> "none"]

\* lines 93-112: download_file raises, or the content is read and a new
\* parser is about to parse it
Download ==
    /\ sftp.state = "file"
    /\ sftp.step = "called"
    /\ \/ /\ sftp' = [sftp EXCEPT !.step = "finished", !.error = "download_file"]
          /\ UNCHANGED <<content, pc, calls>>
       \/ /\ content' \in ReuseDocs
          /\ pc' = "start"
          /\ calls' = 1
          /\ sftp' = [sftp EXCEPT !.step = "downloaded"]
    /\ UNCHANGED <<segments, idx, cur, px, item, lpc, gen>>

\* lines 112-134: parse_content raised; or no invoice; or invoice_to_dict
\* raises while the summary table is made; or a header is missing; else
\* generate_997 is called with config = EDI997Config()
Summarise ==
    /\ sftp.state = "file"
    /\ sftp.step = "downloaded"
    /\ pc \in {"returned", "raised"}
    /\ LET refused ==
               IF pc = "raised" THEN "parse_content"
               ELSE IF px.invoices = <<>> THEN "no invoices"
               ELSE IF \E k \in DOMAIN px.invoices : ~invoice_to_dict(px.invoices[k]).ok
               THEN "invoice_to_dict"
               ELSE IF \E t \in DOMAIN px.original_segments : px.original_segments[t] = None
               THEN "missing segments"
               ELSE "none"
       IN  IF refused # "none"
           THEN /\ sftp' = [sftp EXCEPT !.step = "finished", !.error = refused]
                /\ gen' = gen
           ELSE /\ sftp' = [sftp EXCEPT !.step = "acknowledging"]
                /\ gen' = [state |-> "called", config |-> DefaultConfig,
                           isa_segment |-> px.original_segments["ISA"][1],
                           st_segment |-> px.original_segments["ST"][1],
                           gs_segment |-> px.original_segments["GS"][1],
                           error |-> "none", segments |-> <<>>, output |-> None]
    /\ UNCHANGED <<content, segments, idx, cur, pc, px, item, lpc, calls>>

\* lines 130-195: generate_997 raised; or invoices_df[summary_columns] raises
\* KeyError for a column the rows do not have; else move_file, whose failure
\* is a warning, and then upload_file, whose failure ends the call
PresentAndStore ==
    /\ sftp.state = "file"
    /\ sftp.step = "acknowledging"
    /\ gen.state \in {"raised", "returned"}
    /\ IF gen.state = "raised"
       THEN sftp' = [sftp EXCEPT !.step = "finished", !.error = "generate_997"]
       ELSE IF \E k \in DOMAIN px.invoices :
                  ~(summary_columns \subseteq DOMAIN invoice_to_dict(px.invoices[k]).row)
       THEN sftp' = [sftp EXCEPT !.step = "finished", !.error = "KeyError"]
       ELSE \E moved \in BOOLEAN : \E uploaded \in BOOLEAN :
               sftp' = [sftp EXCEPT !.step = "finished",
                                    !.incoming = ~moved, !.processed = moved,
                                    !.warned = ~moved, !.ack_997 = uploaded,
                                    !.error = IF uploaded THEN "none" ELSE "upload_file"]
    /\ SftpVarsIdle

NextFile ==
    \/ Download
    \/ Next
    \/ Summarise
    \/ Validate
    \/ Generate
    \/ PresentAndStore

SpecFile == InitFile /\ [][NextFile]_vars

(***************************************************************************)
(* Properties of generate_997                                              *)
(***************************************************************************)
Returned == gen.state = "returned"

\* element k of the original ISA under the configured element separator
Original(k) == El(Split(gen.isa_segment, gen.config.element_separator), k)

\* element k of the n-th generated segment
Generated(n, k) == El(Split(gen.segments[n], gen.config.element_separator), k)

AckTags ==
    <<Tag.ISA, Tag.GS, Tag.ST, <<"A", "K", "1">>, <<"A", "K", "2">>, <<"A", "K", "5">>,
      <<"A", "K", "9">>, <<"S", "E">>, Tag.GE, <<"I", "E", "A">>>>

TripleHasNoTerminator ==
    \A t \in {gen.isa_segment, gen.st_segment, gen.gs_segment} :
        Hits(t, gen.config.segment_terminator) = {}

\* C4: when the triple passes validation and holds no segment terminator, the
\* output of generate_997 split by the configured terminator is ten segments
\* tagged ISA, GS, ST, AK1, AK2, AK5, AK9, SE, GE, IEA in that order, followed
\* by the one empty piece that a single trailing terminator leaves.
C4_TenSegmentsInOrder ==
    (Returned /\ TripleHasNoTerminator) =>
        LET pieces == Split(gen.output[1], gen.config.segment_terminator)
        IN  /\ Len(pieces) = 11
            /\ pieces[11] = <<>>
            /\ gen.output[1][Len(gen.output[1])] = gen.config.segment_terminator[1]
            /\ \A k \in 1..10 :
                  Split(pieces[k], gen.config.element_separator)[1] = AckTags[k]

\* a 997 was returned under the custom delimiters for a triple free of them
C4_Witness ==
    /\ Returned
    /\ TripleHasNoTerminator
    /\ gen.config = CustomConfig

\* C5: in a returned 997 the generated ISA carries the original receiver
\* qualifier and id as its sender (elements 5, 6), the original sender
\* qualifier and id as its receiver (elements 7, 8), and the generated GS has
\* the original receiver id and sender id as elements 2 and 3.
C5_PartiesSwapped ==
    Returned =>
        /\ Generated(1, 5) = Original(7)
        /\ Generated(1, 6) = Original(8)
        /\ Generated(1, 7) = Original(5)
        /\ Generated(1, 8) = Original(6)
        /\ Generated(2, 2) = Original(8)
        /\ Generated(2, 3) = Original(6)

\* a 997 was returned for an interchange whose two parties differ in id and
\* in qualifier
C5_Witness ==
    /\ Returned
    /\ Original(6) # Original(8)
    /\ Original(5) # Original(7)

\* C6: in a returned 997 the IEA's element 2 and the generated ISA's element
\* 13 both equal the original ISA's element 13 padded with zeros to 9.
C6_ControlNumberPassthrough ==
    Returned =>
        /\ Generated(10, 2) = zfill(Original(13), 9)
        /\ Generated(1, 13) = zfill(Original(13), 9)

\* the input text is empty, lacks its tag or has fewer than n elements
Invalid(text, tag, n) ==
    \/ text = <<>>
    \/ ~StartsWith(text, tag)
    \/ Len(Split(text, gen.config.element_separator)) < n

AnyInvalid ==
    \/ Invalid(gen.isa_segment, Tag.ISA, 16)
    \/ Invalid(gen.st_segment, Tag.ST, 3)
    \/ Invalid(gen.gs_segment, Tag.GS, 8)

RaisedBeforeBuilding ==
    /\ gen.state = "raised"
    /\ gen.error # "generating"
    /\ gen.segments = <<>>
    /\ gen.output = None

AllTagged ==
    /\ StartsWith(gen.isa_segment, Tag.ISA)
    /\ StartsWith(gen.st_segment, Tag.ST)
    /\ StartsWith(gen.gs_segment, Tag.GS)

IsaIsShort == Len(Split(gen.isa_segment, gen.config.element_separator)) < 16

\* C7 as stated: once generate_997 has validated, an invalid ISA, ST or GS
\* means it raised with no output before building a segment, and an ISA
\* segment of fewer than 16 elements means the error is the ISA element-count
\* error.
C7_AsStated ==
    gen.state # "called" =>
        /\ AnyInvalid => RaisedBeforeBuilding
        /\ (IsaIsShort /\ StartsWith(gen.isa_segment, Tag.ISA)) =>
              gen.error = "ISA elements"

\* C7 amended: an invalid ISA, ST or GS means generate_997 raised with no
\* output before building a segment; an ISA of fewer than 16 elements gives
\* the ISA element-count error when all three inputs start with their tags,
\* and one of the three missing-or-invalid-segment errors when one does not.
C7_RaisesBeforeOutput ==
    gen.state # "called" =>
        /\ AnyInvalid => RaisedBeforeBuilding
        /\ (IsaIsShort /\ AllTagged) => gen.error = "ISA elements"
        /\ (IsaIsShort /\ ~AllTagged) =>
              gen.error \in {"invalid ISA", "invalid ST", "invalid GS"}

\* generate_997 raised for a tagged ISA of fifteen elements beside a valid ST
\* and GS
C7_Witness ==
    /\ gen.state = "raised"
    /\ AllTagged
    /\ Len(Split(gen.isa_segment, gen.config.element_separator)) = 15
    /\ ~Invalid(gen.st_segment, Tag.ST, 3)
    /\ ~Invalid(gen.gs_segment, Tag.GS, 8)

(***************************************************************************)
(* Properties of EDILineItem                                               *)
(***************************************************************************)
Constructed == lpc \in {"constructed", "typed"}

Base == Mul(item.quantity, item.unit_price)

RECURSIVE SumAbs(_)
SumAbs(list) == IF list = <<>> THEN 0 ELSE Abs(Head(list).amount) + SumAbs(Tail(list))

\* C2 as stated: whatever the transaction type, total_amount is
\* quantity*unit_price plus the stored allowance amounts plus the stored tax
\* amounts, after construction, set_transaction_type and every add.
C2_AsStated ==
    Constructed =>
        item.total_amount = Base + SumAmounts(item.allowances) + SumAmounts(item.taxes)

\* C2 amended: for a line item that is constructed, given its transaction
\* type once, and then given allowances and taxes, total_amount is
\* quantity*unit_price plus the stored allowance and tax amounts when the type
\* is not 'CR', and minus the magnitude of quantity*unit_price minus the
\* magnitudes of the stored allowance and tax amounts when it is 'CR'.
C2_TotalTracksAdjustments ==
    Constructed =>
        IF item.transaction_type = CR
        THEN item.total_amount = 0 - Abs(Base) - SumAbs(item.allowances) - SumAbs(item.taxes)
        ELSE item.total_amount =
                 Base + SumAmounts(item.allowances) + SumAmounts(item.taxes)

\* a credit line item of positive base that holds a positive tax and a
\* negative allowance
C2_Witness ==
    /\ lpc = "typed"
    /\ item.transaction_type = CR
    /\ Base > 0
    /\ \E i \in 1..Len(item.taxes) : item.taxes[i].amount > 0
    /\ \E i \in 1..Len(item.allowances) : item.allowances[i].amount < 0

(***************************************************************************)
(* Properties of parse_content                                             *)
(***************************************************************************)
NonBlank(text) == Strip(text) # <<>>

IsBIG(els) == els[1] = Tag.BIG

\* The document as its own delimiters cut it: the element separator is the
\* character after the leading ISA, the segment terminator the last character,
\* and white space around a segment belongs to no segment.
DocElements ==
    LET pieces == SelectSeq(Split(content, <<content[Len(content)]>>), NonBlank)
    IN  [k \in 1..Len(pieces) |-> Split(Strip(pieces[k]), <<content[4]>>)]

\* the document opens with an ISA of sixteen elements and each of its BIG
\* segments has a calendar date and an invoice number
WellFormedDocument ==
    /\ Len(content) > 4
    /\ StartsWith(content, Tag.ISA)
    /\ content[4] # content[Len(content)]
    /\ Len(DocElements[1]) = 17
    /\ \A k \in 1..Len(DocElements) :
          IsBIG(DocElements[k]) =>
              /\ Len(DocElements[k]) >= 3
              /\ parse_date(DocElements[k][2]).ok

\* C1: for a document whose well-formed ISA precedes its BIG segments, all
\* well-formed, parse_content returns one invoice per BIG segment, and the
\* k-th invoice has the invoice number of the k-th BIG segment.
C1_OneInvoicePerBIG ==
    (pc = "returned" /\ WellFormedDocument) =>
        LET bigs == SelectSeq(DocElements, IsBIG)
        IN  /\ Len(px.invoices) = Len(bigs)
            /\ \A k \in 1..Len(bigs) : px.invoices[k].invoice_number = bigs[k][3]

\* the step processes a TXI with a numeric amount while a line item of the
\* current invoice is open
TxiOnOpenLineItem ==
    /\ At(Tag.TXI)
    /\ px.current_line_item # None
    /\ px.current_line_item[1] = px.current_invoice
    /\ Len(elements) > 2
    /\ Decimal(El(elements, 2)).ok

\* C3: a TXI that follows an IT1 adds exactly one tax entry to that line
\* item, its amount the raw element value, and the line item's total_amount
\* grows by that amount (10 x 100.00 with a 5.00 allowance and a TXI of 1000
\* comes to 1995.00).
C3_TxiTaxOnLineItem ==
    [][TxiOnOpenLineItem =>
          LET li     == px.current_line_item
              before == px.invoices[li[1]].line_items[li[2]]
              after  == px'.invoices[li[1]].line_items[li[2]]
              raw    == Decimal(El(elements, 2)).v
          IN  /\ Len(after.taxes) = Len(before.taxes) + 1
              /\ after.taxes[Len(after.taxes)].amount = raw
              /\ after.total_amount = before.total_amount + raw]_vars

\* the step processes a TDS with a numeric total while an invoice is current
TdsOnCurrentInvoice ==
    /\ At(Tag.TDS)
    /\ px.current_invoice # 0
    /\ Len(elements) > 1
    /\ Decimal(El(elements, 1)).ok

\* the total a TDS declares: cents unless written with a decimal point,
\* negative for a credit invoice
DeclaredTotal ==
    LET raw   == Decimal(El(elements, 1)).v
        value == IF Contains(El(elements, 1), ".") THEN raw ELSE Div100(raw)
    IN  IF px.invoices[px.current_invoice].transaction_type = CR
        THEN -Abs(value) ELSE value

\* C8: when a TDS is processed for the current invoice, the mismatch details
\* are shown exactly when the declared total and calculate_total() of the
\* invoice differ by more than 0.02.
C8_MismatchIffOverTolerance ==
    [][TdsOnCurrentInvoice =>
          LET calculated == calculate_total(px'.invoices[px.current_invoice])
          IN  px'.last = "expander" <=>
                  (calculated.ok /\ Abs(calculated.v - DeclaredTotal) > 2 * (Scale \div 100))]_vars

\* C10: parse_content returns normally for every input text.
C10_NeverRaises == pc # "raised"

\* quantity*unit_price of line item i plus the amounts of its allowances
LineShare(inv, i) ==
    Mul(inv.line_items[i].quantity, inv.line_items[i].unit_price)
        + SumAmounts(inv.line_items[i].allowances)

RECURSIVE LineShares(_, _)
LineShares(inv, n) == IF n = 0 THEN 0 ELSE LineShares(inv, n - 1) + LineShare(inv, n)

\* the sum s of C9: line items and their allowances, the invoice-level
\* allowances, and total_tax when positive, else the invoice-level taxes
SumOfParts(inv) ==
    LineShares(inv, Len(inv.line_items)) + SumAmounts(inv.allowances)
        + (IF inv.total_tax > 0 THEN inv.total_tax ELSE SumAmounts(inv.taxes))

Invoices == {px.invoices[k] : k \in 1..Len(px.invoices)}

BigWithPoCreatesInvoice ==
    /\ At(Tag.BIG)
    /\ Len(elements) > 4
    /\ Len(px'.invoices) = Len(px.invoices) + 1

\* C11: the invoice created for a BIG segment that carries a purchase-order
\* number as its fourth element (BIG*date*invoice*date*PO) has po_number
\* equal to that element, also when the BIG segment ends there.
C11_PoNumberIsFourthElement ==
    [][BigWithPoCreatesInvoice =>
          px'.invoices[Len(px'.invoices)].po_number = El(elements, 4)]_vars

(***************************************************************************)
(* The N1 branch                                                           *)
(***************************************************************************)
PartyNames == {"vendor_name", "buyer_name", "ship_to_name", "bill_to_name", "ship_from_name"}

\* the role code of each party-name field
RoleOf ==
    [vendor_name |-> <<"S", "E">>, buyer_name |-> <<"B", "Y">>,
     ship_to_name |-> <<"S", "T">>, bill_to_name |-> <<"B", "T">>,
     ship_from_name |-> <<"S", "F">>]

\* the step leaves the parser as it was, its diagnostic aside
ChangesNothing == Quiet(px') = Quiet(px)

\* the step sets party-name field f of the current invoice to the name
\* element and changes nothing else
SetsOnly(f) ==
    /\ Len(elements) > 2
    /\ Quiet(px') = Quiet([px EXCEPT !.invoices[px.current_invoice][f] = El(elements, 2)])

\* C12 as stated: an N1 processed while an invoice is current sets the
\* party-name field of its role code and leaves the rest alone; with another
\* role code, or with no current invoice, it changes nothing.
C12_AsStated ==
    [][At(Tag.N1) =>
          LET named == {f \in PartyNames : Len(elements) > 1 /\ RoleOf[f] = El(elements, 1)}
          IN  IF px.current_invoice # 0 /\ named # {}
              THEN \E f \in named : SetsOnly(f)
              ELSE ChangesNothing]_vars

\* C12 amended: an N1 of at least three elements (tag, role code, name)
\* processed while an invoice is current sets the party-name field of its role
\* code to the name element and leaves the other four party-name fields and
\* everything else unchanged; an N1 of fewer than three elements, an N1 with
\* any other role code, or one seen while no invoice is current changes nothing.
C12_PartyNameByRole ==
    [][At(Tag.N1) =>
          LET named == {f \in PartyNames : Len(elements) > 2 /\ RoleOf[f] = El(elements, 1)}
          IN  IF px.current_invoice # 0 /\ named # {}
              THEN \E f \in named : SetsOnly(f)
              ELSE ChangesNothing]_vars

\* an invoice that two N1 segments gave a vendor and then a buyer
C12_Witness ==
    \E inv \in Invoices :
        /\ inv.vendor_name = El(SegN1.Vendor, 2)
        /\ inv.buyer_name = El(SegN1.Buyer, 2)

(***************************************************************************)
(* The ISA branch and the invoices made after it                           *)
(***************************************************************************)
\* the elements of segment k as the loop splits it
ElementsOf(k) == Split(segments[k], px.element_separator)

\* the segments before the current one that the loop reads as an ISA of more
\* than n elements
HeadersBefore(n) ==
    {k \in 1..(idx - 1) :
        /\ Strip(segments[k]) # <<>>
        /\ El(ElementsOf(k), 0) = Tag.ISA
        /\ Len(ElementsOf(k)) > n}

Latest(S) == CHOOSE k \in S : \A j \in S : j <= k

\* the step processes a BIG and creates an invoice
BigCreatesInvoice == At(Tag.BIG) /\ Len(px'.invoices) = Len(px.invoices) + 1

Created == px'.invoices[Len(px'.invoices)]

\* the step keeps the three interchange values of the invoices made so far
KeepsInterchangeValues ==
    \A k \in 1..Len(px.invoices) :
        /\ px'.invoices[k].sender_id = px.invoices[k].sender_id
        /\ px'.invoices[k].receiver_id = px.invoices[k].receiver_id
        /\ px'.invoices[k].interchange_control_number =
               px.invoices[k].interchange_control_number

\* C13 as stated: an invoice has sender_id, receiver_id and
\* interchange_control_number equal to elements 6, 8 and 13 of the most recent
\* ISA segment before its BIG, verbatim, and keeps them until parse_content
\* returns.
C13_AsStated ==
    [][pc = "loop" =>
          /\ KeepsInterchangeValues
          /\ BigCreatesInvoice =>
                /\ HeadersBefore(0) # {}
                /\ LET isa == ElementsOf(Latest(HeadersBefore(0)))
                   IN  /\ Len(isa) > 13
                       /\ Created.sender_id = El(isa, 6)
                       /\ Created.receiver_id = El(isa, 8)
                       /\ Created.interchange_control_number = El(isa, 13)]_vars

\* C13 amended: an invoice is created only after ISA segments have supplied
\* elements 6, 8 and 13, and it has sender_id, receiver_id and
\* interchange_control_number equal, verbatim with the padding, to element 6,
\* 8 and 13 each of the most recent ISA segment before its BIG that has that
\* element (an ISA cut short leaves the values of an earlier ISA in place);
\* the invoice keeps them until parse_content returns.
C13_InterchangeValuesOfLatestISA ==
    [][pc = "loop" =>
          /\ KeepsInterchangeValues
          /\ BigCreatesInvoice =>
                /\ HeadersBefore(13) # {}
                /\ Created.sender_id = El(ElementsOf(Latest(HeadersBefore(6))), 6)
                /\ Created.receiver_id = El(ElementsOf(Latest(HeadersBefore(8))), 8)
                /\ Created.interchange_control_number =
                       El(ElementsOf(Latest(HeadersBefore(13))), 13)]_vars

\* an invoice of the second interchange, with its padded ids
C13_Witness ==
    \E inv \in Invoices :
        /\ inv.sender_id = El(SegISA.Second, 6)
        /\ inv.receiver_id = El(SegISA.Second, 8)
        /\ inv.interchange_control_number = El(SegISA.Second, 13)

(***************************************************************************)
(* Properties of SFTPHandler._validate_path                                *)
(***************************************************************************)
Named(comp) == comp \notin {<<>>, <<".">>}

\* the directory names of a path, from the root
Parts(path) == SelectSeq(Split(path, Slash), Named)

IsPrefix(s, t) == Len(s) <= Len(t) /\ SubSeq(t, 1, Len(s)) = s

\* the directory reached from directory at by the first n components
RECURSIVE Walk(_, _, _)
Walk(at, comps, n) ==
    IF n = 0 THEN at
    ELSE LET from == Walk(at, comps, n - 1)
         IN  IF comps[n] # DotDot THEN Append(from, comps[n])
             ELSE IF from = <<>> THEN from ELSE SubSeq(from, 1, Len(from) - 1)

\* the directory a path argument names, taken from the home directory
Destination(home, path) == Walk(Parts(home), Parts(path), Len(Parts(path)))

\* the directory a returned path names: an absolute path from the root, a
\* relative one from the home directory
Resolved(home, path) ==
    IF StartsWith(path, Slash) THEN Walk(<<>>, Parts(path), Len(Parts(path)))
    ELSE Destination(home, path)

\* the returned path names the home directory or a place beneath it
WithinHome(home, path) == IsPrefix(Parts(home), Resolved(home, path))

\* C14: for every configured home directory and every path argument,
\* _validate_path either raises ValueError or returns a normalized path that
\* is the home directory itself or lies beneath it, and it raises for every
\* path whose '..' components lead out of the home directory.
C14_ValidatedPathWithinHome ==
    sftp.state = "validated" =>
        /\ sftp.result.res = "return" => WithinHome(sftp.home, sftp.result.path)
        /\ ~IsPrefix(Parts(sftp.home), Destination(sftp.home, sftp.path)) =>
               sftp.result.res = "raise"

(***************************************************************************)
(* The tables against the builder                                          *)
(***************************************************************************)
\* the line items of the invoices, invoice by invoice
RECURSIVE LineItemsOf(_)
LineItemsOf(invoices) ==
    IF invoices = <<>> THEN <<>>
    ELSE Head(invoices).line_items \o LineItemsOf(Tail(invoices))

\* C15: for every invoice parse_content returns and each of its line items,
\* credit invoices included, the Net Amount of the line item's row of
\* get_line_items_df is Line Amount + Allowances + Sales Tax and equals, as a
\* decimal value, the total_amount the builder stored on the line item.
C15_NetAmountIsStoredTotal ==
    pc = "returned" =>
        LET rows  == get_line_items_df(px.invoices)
            items == LineItemsOf(px.invoices)
        IN  /\ Len(rows) = Len(items)
            /\ \A k \in 1..Len(rows) :
                  /\ rows[k]["Net Amount"].value =
                         rows[k]["Line Amount"].value + rows[k]["Allowances"].value
                             + rows[k]["Sales Tax"].value
                  /\ rows[k]["Net Amount"].value = items[k].total_amount

\* C16: for every invoice parse_content returns, credit invoices included,
\* the Total Amount of its invoice_to_dict row, rounded half-up to 2
\* decimals, equals invoice.calculate_total().
C16_TotalAmountIsCalculatedTotal ==
    pc = "returned" =>
        \A inv \in Invoices :
            /\ invoice_to_dict(inv).ok <=> calculate_total(inv).ok
            /\ invoice_to_dict(inv).ok =>
                   Quantize(invoice_to_dict(inv).row["Total Amount"].value) =
                       calculate_total(inv).v

(***************************************************************************)
(* The separators of a parse_content call                                  *)
(***************************************************************************)
\* the loop is over the segments that segment terminator st cuts the trimmed
\* document into, and it has the current segment split by element separator
\* es, unless the segment is blank
SplitWith(es, st) ==
    /\ segments = Split(content, st)
    /\ IF idx > Len(segments) THEN cur.kind = "end"
       ELSE IF Strip(segments[idx]) = <<>> THEN cur.kind = "blank"
       ELSE cur.kind = "elements" /\ cur.elements = Split(segments[idx], es)

\* the separators the document calls for
SplitAsDocumentSays ==
    IF ~StartsWith(content, Tag.ISA) THEN SplitWith(<<"*">>, <<"~">>)
    ELSE Len(content) > 3 => SplitWith(<<content[4]>>, <<content[Len(content)]>>)

\* the loop is at a segment that is empty or only white space
AtBlankSegment == pc = "loop" /\ idx <= Len(segments) /\ Strip(segments[idx]) = <<>>

\* C17: in every parse_content call a document that does not begin with ISA
\* is split with '*' and '~', a document that begins with ISA is split with
\* its character at index 3 and the last character of the trimmed document,
\* and a segment that is empty or only white space is passed over without
\* effect.
C17_SplitBySeparatorsOfDocument ==
    /\ [](pc = "loop" => SplitAsDocumentSays)
    /\ [][AtBlankSegment => (pc' = "loop" /\ idx' = idx + 1 /\ px' = px)]_vars

(***************************************************************************)
(* Invoices one after another                                              *)
(***************************************************************************)
\* the step processes a SAC, a PID or a GL-account REF while the current
\* invoice has no line item yet
BeforeFirstLineItem ==
    /\ pc = "loop" /\ cur.kind = "elements"
    /\ segment_id \in {Tag.SAC, Tag.PID} \/ IsGLRef(elements)
    /\ px.current_invoice # 0
    /\ px.invoices[px.current_invoice].line_items = <<>>

\* C18: after a BIG has started a new invoice no line item is current, and a
\* SAC, PID or REF that arrives before the invoice's first IT1 leaves every
\* other invoice as it is and gives the new invoice no line item: it applies
\* at invoice level, or not at all for a PID.
C18_NoLineItemAfterBIG ==
    [][/\ BigCreatesInvoice => px'.current_line_item = None
       /\ BeforeFirstLineItem =>
             /\ px'.invoices[px.current_invoice].line_items = <<>>
             /\ \A k \in 1..Len(px.invoices) :
                   k # px.current_invoice => px'.invoices[k] = px.invoices[k]
             /\ segment_id = Tag.PID => px'.invoices = px.invoices]_vars

\* C19: once a later BIG has created a new invoice, no segment changes an
\* invoice created before it: every step of the loop leaves all invoices but
\* the latest exactly as they are.
C19_EarlierInvoicesFrozen ==
    [][pc = "loop" =>
          \A k \in 1..(Len(px.invoices) - 1) : px'.invoices[k] = px.invoices[k]]_vars

(***************************************************************************)
(* parse_sac_segment                                                       *)
(***************************************************************************)
\* element 5 of the SAC divided by 100, as a magnitude rounded half-up to 2
\* decimals
SacMagnitude == Quantize(Abs(Div100(Decimal(El(elements, 5)).v)))

\* C20: for a SAC of at least 6 elements whose element 5 is a number,
\* parse_sac_segment returns for indicator 'A' an amount that is never
\* positive and for indicator 'C' an amount that is never negative, in both
\* cases element 5 divided by 100 and rounded half-up to 2 decimals; for a
\* SAC of fewer than 6 elements or with another indicator it returns no result
\* and the caller changes nothing.
C20_AllowanceNegativeChargePositive ==
    [][At(Tag.SAC) =>
          LET r == parse_sac_segment(segment, px.element_separator)
          IN  IF Len(elements) > 5 /\ El(elements, 1) \in {<<"A">>, <<"C">>}
              THEN Decimal(El(elements, 5)).ok =>
                      /\ r.res = "dict"
                      /\ Abs(r.dict.amount) = SacMagnitude
                      /\ El(elements, 1) = <<"A">> => r.dict.amount <= 0
                      /\ El(elements, 1) = <<"C">> => r.dict.amount >= 0
              ELSE r.res = "none" /\ ChangesNothing]_vars

(***************************************************************************)
(* The TXI branch                                                          *)
(***************************************************************************)
\* the step processes a TXI that carries an amount, a number, while an
\* invoice is current
TxiOnCurrentInvoice ==
    /\ At(Tag.TXI)
    /\ px.current_invoice # 0
    /\ Len(elements) > 2
    /\ Decimal(El(elements, 2)).ok

\* the amount of the TXI: the raw element as written when it has a decimal
\* point, else divided by 100
TxiAmount ==
    IF \E i \in 1..Len(El(elements, 2)) : El(elements, 2)[i] = "."
    THEN Decimal(El(elements, 2)).v
    ELSE Decimal(El(elements, 2)).v \div 100

\* the step leaves the line items of every invoice as they are
LineItemsUntouched ==
    /\ Len(px'.invoices) = Len(px.invoices)
    /\ \A k \in 1..Len(px.invoices) : px'.invoices[k].line_items = px.invoices[k].line_items

C22_DeclaredTotalStored ==
    [][TdsOnCurrentInvoice =>
          px'.invoices[px.current_invoice].total_amount = Quantize(DeclaredTotal)]_vars

(***************************************************************************)
(* The control numbers of a 997                                            *)
(***************************************************************************)
\* element k of the original GS and of the original ST
OriginalGS(k) == El(Split(gen.gs_segment, gen.config.element_separator), k)

OriginalST(k) == El(Split(gen.st_segment, gen.config.element_separator), k)

\* C23: in a returned 997, AK1 carries the functional identifier (element 1)
\* and the group control number (element 6) of the original GS, AK2 carries
\* 810 and the control number (element 2) of the original ST, the generated GS
\* (element 6) and GE (element 2) carry the original group control number, and
\* the generated ST and SE carry the same new control number 1001.
C23_AcknowledgedControlNumbers ==
    Returned =>
        /\ Generated(4, 0) = <<"A", "K", "1">>
        /\ Generated(4, 1) = OriginalGS(1)
        /\ Generated(4, 2) = OriginalGS(6)
        /\ Generated(5, 0) = <<"A", "K", "2">>
        /\ Generated(5, 1) = <<"8", "1", "0">>
        /\ Generated(5, 2) = OriginalST(2)
        /\ Generated(2, 6) = OriginalGS(6)
        /\ Generated(9, 2) = OriginalGS(6)
        /\ Generated(3, 2) = <<"1", "0", "0", "1">>
        /\ Generated(8, 2) = <<"1", "0", "0", "1">>

\* a 997 was returned that acknowledges group 7 and transaction set 0001 of
\* an interchange written with the default delimiters
C23_Witness ==
    /\ Returned
    /\ gen.config = DefaultConfig
    /\ OriginalGS(6) = <<"7">>
    /\ OriginalST(2) = <<"0", "0", "0", "1">>
    /\ Len(gen.segments) = 10

(***************************************************************************)
(* The captured headers                                                    *)
(***************************************************************************)
\* the separators of the document just parsed: those of its leading ISA, or
\* the defaults
OwnSeparators ==
    IF StartsWith(content, Tag.ISA) /\ Len(content) > 3
    THEN [es |-> <<content[4]>>, st |-> <<content[Len(content)]>>]
    ELSE [es |-> <<"*">>, st |-> <<"~">>]

\* the segments of the document just parsed, trimmed, white space alone
\* being no segment
OwnSegments ==
    LET pieces == SelectSeq(Split(content, OwnSeparators.st), NonBlank)
    IN  [k \in 1..Len(pieces) |-> Strip(pieces[k])]

\* the header of tag t that the document just parsed holds: its last segment
\* with that tag, or None
OwnHeader(t) ==
    LET tagged == {k \in 1..Len(OwnSegments) :
                      Split(OwnSegments[k], OwnSeparators.es)[1] = t}
    IN  IF tagged = {} THEN None ELSE Some(OwnSegments[Latest(tagged)])

\* C24: after parse_content returns, each captured header (ISA, GS, ST, GE) is
\* the trimmed text of the last segment with that tag in the document just
\* parsed, or None when that document has none, whatever the instance parsed
\* before.
C24_HeadersOfThisDocument ==
    pc = "returned" =>
        /\ px.original_segments["ISA"] = OwnHeader(Tag.ISA)
        /\ px.original_segments["GS"] = OwnHeader(Tag.GS)
        /\ px.original_segments["ST"] = OwnHeader(Tag.ST)
        /\ px.original_segments["GE"] = OwnHeader(Tag.GE)

(***************************************************************************)
(* The adjustments of the invoices returned                                *)
(***************************************************************************)
\* C25: every element of the allowances and of the taxes of an invoice that
\* parse_content returns is an adjustment record with a type, an amount and a
\* description, so that calculate_total() and invoice_to_dict() do not fail on
\* it, a positive TDS discount included.
C25_AdjustmentsAreRecords ==
    pc = "returned" =>
        \A k \in 1..Len(px.invoices) :
            /\ \A i \in 1..Len(px.invoices[k].allowances) :
                  px.invoices[k].allowances[i].kind = "dict"
            /\ \A i \in 1..Len(px.invoices[k].taxes) :
                  px.invoices[k].taxes[i].kind = "dict"
            /\ calculate_total(px.invoices[k]).ok
            /\ invoice_to_dict(px.invoices[k]).ok

(***************************************************************************)
(* The 997 of an uploaded file                                             *)
(***************************************************************************)
\* the document just parsed has an ISA, a GS and an ST that have, under its
\* own element separator, the 16, 8 and 3 elements a 997 needs
WellFormedHeaders ==
    /\ OwnHeader(Tag.ISA) # None /\ OwnHeader(Tag.GS) # None /\ OwnHeader(Tag.ST) # None
    /\ Len(Split(OwnHeader(Tag.ISA)[1], OwnSeparators.es)) >= 16
    /\ Len(Split(OwnHeader(Tag.GS)[1], OwnSeparators.es)) >= 8
    /\ Len(Split(OwnHeader(Tag.ST)[1], OwnSeparators.es)) >= 3

\* C26: for a document whose ISA, GS and ST are well-formed under the
\* element separator detected from the document, whatever character it is,
\* the generate_997 call that the application makes with the captured
\* headers does not raise.
C26_AcknowledgmentOfOwnSeparators ==
    (pc = "returned" /\ WellFormedHeaders) => gen.state # "raised"

(***************************************************************************)
(* Line breaks after the segment terminators                               *)
(***************************************************************************)
\* the document just parsed, with the line break after each of its segment
\* terminators taken out
WithoutLineBreaks ==
    Replace(content, OwnSeparators.st \o <<"\n">>, OwnSeparators.st)

\* C27: whatever the segment terminator of the document, parse_content ends
\* for a document with a line break after each terminator as it ends for the
\* same document without those line breaks, with the same invoices and the
\* same captured headers.
C27_LineBreaksChangeNothing ==
    pc \in {"returned", "raised"} =>
        LET plain == parse_content(NewParser, WithoutLineBreaks)
        IN  /\ plain.pc = pc
            /\ plain.px.invoices = px.invoices
            /\ plain.px.original_segments = px.original_segments

(***************************************************************************)
(* The invoice a line item goes to                                         *)
(***************************************************************************)
\* the segments before the current one that the loop reads as a BIG
BigsBefore ==
    {k \in 1..(idx - 1) : Strip(segments[k]) # <<>> /\ El(ElementsOf(k), 0) = Tag.BIG}

\* the number of invoices the loop has made when it is through segment k
InvoicesAfter(k) ==
    Len(RunLoop(EnterCall(px), SubSeq(segments, 1, k), 1).px.invoices)

\* the invoices whose list of line items the step changes
Receivers ==
    {n \in 1..Len(px.invoices) : px'.invoices[n].line_items # px.invoices[n].line_items}

\* C28: a line item enters an invoice only through an IT1 segment that lies
\* after the BIG of that invoice and before the next BIG of the document: the
\* last BIG before the IT1 is the one that made the invoice, also when a BIG
\* could not be processed and was skipped.
C28_LineItemsBetweenOwnBigAndNext ==
    [][(pc = "loop" /\ cur.kind = "elements" /\ segment_id # Tag.BIG) =>
          /\ Len(px'.invoices) = Len(px.invoices)
          /\ \A n \in Receivers :
                /\ segment_id \in {Tag.IT1, Tag.PID, Tag.SAC, Tag.REF}
                /\ Len(px'.invoices[n].line_items) # Len(px.invoices[n].line_items) =>
                      /\ segment_id = Tag.IT1
                      /\ px'.invoices[n].line_items =
                             Append(px.invoices[n].line_items,
                                    px'.invoices[n].line_items[Len(px'.invoices[n].line_items)])
                      /\ BigsBefore # {}
                      /\ InvoicesAfter(Latest(BigsBefore)) = n
                      /\ InvoicesAfter(Latest(BigsBefore) - 1) = n - 1]_vars

(***************************************************************************)
(* C29: after any sequence of connect() and disconnect() calls on one      *)
(* SFTPHandler that ends with a successful disconnect(), every SSH client  *)
(* and SFTP channel opened by connect() has been closed and both handles   *)
(* are None.                                                               *)
(***************************************************************************)
C29_NothingLeftOpen ==
    (sftp.state = "handler" /\ sftp.last = "disconnected") =>
        /\ sftp.clients = {}
        /\ sftp.channels = {}
        /\ sftp.ssh = 0
        /\ sftp.sftp = 0

Finished == sftp.state = "file" /\ sftp.step = "finished"

====
